---- MODULE Spec2Model ----
(***************************************************************************)
(* A model of the symbolic execution engine of p4z3/expressions.py:        *)
(* the bit-precise value layer (z3_cast, slice_assign), the expression     *)
(* and statement nodes, callables with their Context restoration and the   *)
(* match-action table.                                                     *)
(***************************************************************************)
EXTENDS Integers, Sequences, FiniteSets, TLC

VARIABLES
    states,     \* heap of P4State objects: variable bindings and expr_chain
    structs,    \* heap of Struct objects: member bindings
    stack,      \* frames of the eval() calls that wait for a nested result
    cur,        \* the P4State the running step()/eval() was called with
    node,       \* the node whose eval() runs next
    pc,         \* "step", "eval", "return", "done", "error" ("bits": bit layer)
    at,         \* the place of the code that was reached last
    ret,        \* the value the last finished call returned
    tbl,        \* the fields of the P4Table of the program
    declared,   \* the action names add_action was called with, in order
    call_counter, \* the call_counter field of every callable
    case_match,    \* the "match" fields of the cases of the switch statement
    run,        \* the node graph evaluated and the formula of its first run
    call,       \* bit layer: the function applied and its arguments
    retval      \* bit layer: the value the function returned

enginevars ==
    <<states, structs, stack, cur, node, pc, at, ret, tbl, declared,
      call_counter, case_match, run>>
fixed == <<call, retval, tbl, declared, case_match, run>>
evalvars == <<states, structs, call_counter, stack, cur, node, ret>>
vars ==
    <<states, structs, stack, cur, node, pc, at, ret, tbl, declared,
      call_counter, case_match, run, call, retval>>

(***************************************************************************)
(* Bounds.                                                                 *)
(***************************************************************************)
MaxWidth == 3      \* widths 1..MaxWidth are enumerated exhaustively

(***************************************************************************)
(* z3 values.  A bit-vector is the sequence of its bits, least             *)
(* significant first (bits[i+1] is bit i); a Python int and a z3 boolean   *)
(* are kept apart from bit-vectors, as isinstance() keeps them apart.      *)
(***************************************************************************)
IntWidth == 64

RECURSIVE IntBits(_, _)
IntBits(v, w) == IF w = 0 THEN <<>> ELSE <<v % 2>> \o IntBits(v \div 2, w - 1)

BitVecVal(v, w) == [sort |-> "bv", bits |-> IntBits(v, w)]
PyInt(v) == [sort |-> "int", int |-> v]
BoolVal(b) == [sort |-> "bool", b |-> b]
Z3Error == [sort |-> "error"]
Pending == [sort |-> "pending"]

size(val) == Len(val.bits)

ZeroExt(n, val) == [sort |-> "bv", bits |-> val.bits \o [i \in 1..n |-> 0]]

SignExt(n, val) ==
    [sort |-> "bv", bits |-> val.bits \o [i \in 1..n |-> val.bits[size(val)]]]

\* z3.Extract(high, low, val): bits high..low of val
Extract(high, low, val) ==
    IF high < low \/ low < 0 \/ high >= size(val)
    THEN Z3Error
    ELSE [sort |-> "bv", bits |-> SubSeq(val.bits, low + 1, high + 1)]

\* z3.Concat(a1, ..., an): a1 holds the most significant bits
RECURSIVE ConcatBits(_)
ConcatBits(vals) ==
    IF vals = <<>> THEN <<>>
    ELSE ConcatBits(Tail(vals)) \o Head(vals).bits

Concat(vals) ==
    IF Len(vals) < 2 \/ \E i \in 1..Len(vals) : vals[i].sort # "bv"
    THEN Z3Error
    ELSE [sort |-> "bv", bits |-> ConcatBits(vals)]

\* z3.If(c, a, b) on a constant condition and two bit-vectors of one sort
If(c, a, b) == IF c.b THEN a ELSE b

\* val == z3.BitVecVal(1, 1): an int is coerced to the 1-bit sort, a
\* bit-vector of another width is a sort mismatch
EqOne(val) ==
    CASE val.sort = "int" -> BoolVal(IntBits(val.int, 1) = <<1>>)
      [] val.sort = "bv" /\ size(val) = 1 -> BoolVal(val.bits = <<1>>)
      [] OTHER -> Z3Error

BoolSort == [kind |-> "BoolSort", size |-> 0]
BitVecSort(n) == [kind |-> "BitVecSort", size |-> n]
IntSize(n) == [kind |-> "int", size |-> n]

z3_cast_signext(val, to_type) ==
    LET val1 == IF val.sort = "bool"
                THEN If(val, BitVecVal(1, 1), BitVecVal(0, 1))
                ELSE val
        to_type_size == to_type.size
    IN  IF to_type.kind = "BoolSort" THEN EqOne(val1)
        ELSE IF val1.sort = "int" THEN BitVecVal(val1.int, to_type_size)
        ELSE IF size(val1) < to_type_size
             THEN SignExt(to_type_size - size(val1), val1)
             ELSE Extract(to_type_size - 1, 0, val1)

z3_cast(val, to_type) ==
    LET val1 == IF val.sort = "bool"
                THEN If(val, BitVecVal(1, 1), BitVecVal(0, 1))
                ELSE val
        to_type_size == IF to_type.kind = "BitVecSort" THEN to_type.size
                        ELSE to_type.size
    IN  IF to_type.kind = "BoolSort" THEN EqOne(val1)
        ELSE IF val1.sort = "int" THEN BitVecVal(val1.int, to_type_size)
        ELSE IF size(val1) < to_type_size
             THEN ZeroExt(to_type_size - size(val1), val1)
             ELSE Extract(to_type_size - 1, 0, val1)

slice_assign_nocast(lval, rval, slice_l, slice_r) ==
    LET lval1 == IF lval.sort = "int" THEN BitVecVal(lval.int, IntWidth) ELSE lval
        lval_max == size(lval1) - 1
        high == IF slice_l < lval_max
                THEN <<Extract(lval_max, slice_l + 1, lval1)>> ELSE <<>>
        low == IF slice_r > 0 THEN <<Extract(slice_r - 1, 0, lval1)>> ELSE <<>>
    IN  IF slice_l = lval_max /\ slice_r = 0 THEN rval
        ELSE Concat(high \o <<rval>> \o low)

slice_assign(lval, rval, slice_l, slice_r) ==
    LET lval1 == IF lval.sort = "int" THEN BitVecVal(lval.int, IntWidth) ELSE lval
        lval_max == size(lval1) - 1
        high == IF slice_l < lval_max
                THEN <<Extract(lval_max, slice_l + 1, lval1)>> ELSE <<>>
        rval1 == z3_cast(rval, IntSize(slice_l + 1 - slice_r))
        low == IF slice_r > 0 THEN <<Extract(slice_r - 1, 0, lval1)>> ELSE <<>>
    IN  IF slice_l = lval_max /\ slice_r = 0 THEN rval
        ELSE Concat(high \o <<rval1>> \o low)

(***************************************************************************)
(* Inputs of the bit layer.                                                *)
(***************************************************************************)
ByteWidth == 8

BitVecs(w) == {[sort |-> "bv", bits |-> b] : b \in [1..w -> {0, 1}]}

SmallBitVecs == UNION {BitVecs(w) : w \in 1..MaxWidth}

\* the 8-bit values of the scenarios of the specification
ByteVals == {BitVecVal(v, ByteWidth) : v \in {0, 1, 5, 15, 165, 255}}

PyInts == {PyInt(v) : v \in {-1, 0, 1, 5}}

Bools == {BoolVal(b) : b \in BOOLEAN}

Vals == SmallBitVecs \cup ByteVals \cup PyInts \cup Bools

TargetWidths == (1..(MaxWidth + 1)) \cup {ByteWidth}

ToTypes ==
    {IntSize(n) : n \in TargetWidths} \cup {BitVecSort(n) : n \in TargetWidths}
        \cup {BoolSort}

CastCalls ==
    {[fn |-> "z3_cast", val |-> v, to_type |-> t] : v \in Vals, t \in ToTypes}

\* slice bounds tried on a container of w bits: all of them on a narrow
\* container, the ends on a wide one
SliceEnds(w) == IF w <= ByteWidth THEN 0..(w - 1) ELSE {0, 1, w - 2, w - 1}

Containers == SmallBitVecs \cup ByteVals \cup PyInts

WidthOf(lval) == IF lval.sort = "int" THEN IntWidth ELSE size(lval)

SlicesOf(c) ==
    {s \in SliceEnds(WidthOf(c)) \X SliceEnds(WidthOf(c)) : s[1] >= s[2]}

SliceCalls ==
    UNION {{[fn |-> "slice_assign", lval |-> c, rval |-> r,
             slice_l |-> s[1], slice_r |-> s[2]] : s \in SlicesOf(c), r \in Vals} :
           c \in Containers}

InitBits ==
    /\ call \in CastCalls \cup SliceCalls
    /\ retval = Pending
    /\ states = <<>> /\ structs = <<>> /\ stack = <<>>
    /\ cur = 0 /\ node = [node |-> "None"] /\ pc = "bits" /\ at = "" /\ ret = Pending
    /\ tbl = [name |-> ""] /\ declared = <<>>
    /\ call_counter = <<>> /\ case_match = <<>>
    /\ run = [graph |-> <<>>, first |-> Pending]

Apply_z3_cast ==
    /\ call.fn = "z3_cast"
    /\ retval = Pending
    /\ retval' = z3_cast(call.val, call.to_type)
    /\ UNCHANGED <<call, enginevars>>

Apply_slice_assign ==
    /\ call.fn = "slice_assign"
    /\ retval = Pending
    /\ retval' = slice_assign(call.lval, call.rval, call.slice_l, call.slice_r)
    /\ UNCHANGED <<call, enginevars>>

\* the bit-vector a cast returned is cast to the boolean sort
Apply_cast_back ==
    /\ call.fn = "z3_cast"
    /\ retval # Pending /\ retval.sort = "bv"
    /\ call' = [fn |-> "cast_back", val |-> retval, to_type |-> BoolSort,
                from |-> call.val]
    /\ retval' = z3_cast(retval, BoolSort)
    /\ UNCHANGED enginevars

NextBits == Apply_z3_cast \/ Apply_slice_assign \/ Apply_cast_back

SpecBits == InitBits /\ [][NextBits]_vars

(***************************************************************************)
(* Symbolic values of the engine: z3 terms, built but never simplified.    *)
(* Literals are the values of the bit layer.                               *)
(***************************************************************************)
Const(name) == [sort |-> "const", name |-> name]

\* z3.BitVec(name, w): bit i of the constant is a symbol of its own, a
\* number other than the bits 0 and 1
ConstNames == <<"v", "s">>
BitOf(name, i) ==
    2 + ByteWidth * (CHOOSE n \in 1..Len(ConstNames) : ConstNames[n] = name) + i
BitVec(name, w) == [sort |-> "bv", bits |-> [i \in 1..w |-> BitOf(name, i - 1)]]

\* z3.Const(name, sort): a bit-vector constant for a bit-vector sort
DeclareSort == [kind |-> "DeclareSort", size |-> 0]
z3_Const(name, param_sort) ==
    IF param_sort.kind = "BitVecSort" THEN BitVec(name, param_sort.size)
    ELSE Const(name)
z3_If(c, a, b) == [sort |-> "If", cond |-> c, then_expr |-> a, else_expr |-> b]
z3_And(args) == [sort |-> "And", args |-> args]
z3_Or(args) == [sort |-> "Or", args |-> args]
\* z3_reg.instance(name, type): a value of the type known by its name
Instance(name) == [sort |-> "instance", name |-> name]
StructRef(ref) == [sort |-> "Struct", ref |-> ref]
\* a P4ComplexType object that is not a Struct
EnumRef(ref) == [sort |-> "Enum", ref |-> ref]
\* a Python list of expressions
PyList(items) == [sort |-> "list", items |-> items]
\* a Python dict of expressions, in the order of its items()
PyDict(keys, items) == [sort |-> "dict", keys |-> keys, items |-> items]
None == [sort |-> "None"]
Raise == [sort |-> "raise"]

\* the number a sequence of bits 0 and 1 stands for
RECURSIVE as_long(_)
as_long(bits) == IF bits = <<>> THEN 0 ELSE Head(bits) + 2 * as_long(Tail(bits))

\* str(val): a numeral prints as its decimal digits whatever its sort, a
\* constant as its name, any other term as its structure
z3_str(val) ==
    CASE val.sort = "int" -> ToString(val.int)
      [] val.sort = "bv" /\ (\A i \in DOMAIN val.bits : val.bits[i] \in {0, 1}) ->
            ToString(as_long(val.bits))
      [] val.sort = "bv" /\ (\E n \in DOMAIN ConstNames :
                                val = BitVec(ConstNames[n], size(val))) ->
            ConstNames[CHOOSE n \in DOMAIN ConstNames :
                           val = BitVec(ConstNames[n], size(val))]
      [] val.sort = "bool" -> IF val.b THEN "True" ELSE "False"
      [] val.sort \in {"const", "instance"} -> val.name
      [] OTHER -> ToString(val)

(***************************************************************************)
(* Nodes.  A Python str used as a reference is the node Name(str); a z3    *)
(* value in the place of an expression is Value(val).                      *)
(***************************************************************************)
Name(str) == [node |-> "str", str |-> str]
Value(val) == [node |-> "z3", val |-> val]
NoneNode == [node |-> "None"]
P4land(lval, rval) == [node |-> "P4land", lval |-> lval, rval |-> rval]
P4lor(lval, rval) == [node |-> "P4lor", lval |-> lval, rval |-> rval]
P4Slice(val, slice_l, slice_r) ==
    [node |-> "P4Slice", val |-> val, slice_l |-> slice_l, slice_r |-> slice_r]
MethodCallExpr(p4_method, args) ==
    [node |-> "MethodCallExpr", p4_method |-> p4_method, args |-> args]
AssignmentStatement(lval, rval) ==
    [node |-> "AssignmentStatement", lval |-> Name(lval), rval |-> rval]
BlockStatement(exprs) == [node |-> "BlockStatement", exprs |-> exprs]
P4Declaration(lval, rval) ==
    [node |-> "P4Declaration", lval |-> Name(lval), rval |-> rval]
P4Exit == [node |-> "P4Exit"]
SliceAssignment(lval, rval, slice_l, slice_r) ==
    [node |-> "SliceAssignment", lval |-> lval, rval |-> rval,
     slice_l |-> slice_l, slice_r |-> slice_r]
P4Return(expr) == [node |-> "P4Return", expr |-> expr]
IfStatement(cond, then_block, else_block) ==
    [node |-> "IfStatement", cond |-> cond, then_block |-> then_block,
     else_block |-> else_block]
MethodCallStmt(method_expr) ==
    [node |-> "MethodCallStmt", method_expr |-> method_expr]
P4Context(var_buffer) == [node |-> "P4Context", var_buffer |-> var_buffer]
\* a Context that holds the state to go back to
P4ContextOf(var_buffer, p4_state) ==
    [node |-> "P4Context", var_buffer |-> var_buffer, p4_state |-> p4_state]
\* a case of a switch: cases[action_str] without its "match" field
Case(action_str, exprs) ==
    [action_str |-> action_str, case_block |-> BlockStatement(exprs)]
SwitchStatement(table_str, cases, default_exprs) ==
    [node |-> "SwitchStatement", table_str |-> table_str, cases |-> cases,
     default_case |-> BlockStatement(default_exprs)]
SwitchHit(table_str, cases, default_case) ==
    [node |-> "SwitchHit", table_str |-> table_str, cases |-> cases,
     default_case |-> default_case]

IsNode(val) == "node" \in DOMAIN val

(***************************************************************************)
(* P4State and Struct objects live in a store S = [states, structs]; a     *)
(* reference is an index.  A member reference is the composed string       *)
(* "base.member" that P4Member returns.                                    *)
(***************************************************************************)
Members == {"f"}

IsMemberRef(S, sid, name) ==
    \E b \in DOMAIN S.states[sid].vars : \E m \in Members : name = b \o "." \o m

BaseOf(S, sid, name) ==
    CHOOSE b \in DOMAIN S.states[sid].vars : \E m \in Members : name = b \o "." \o m

MemberOf(S, sid, name) ==
    CHOOSE m \in Members : name = BaseOf(S, sid, name) \o "." \o m

resolve_reference(S, sid, name) ==
    LET bound == S.states[sid].vars
    IN  IF name \in DOMAIN bound THEN bound[name]
        ELSE IF IsMemberRef(S, sid, name)
        THEN LET base == bound[BaseOf(S, sid, name)]
                 member == MemberOf(S, sid, name)
             IN  IF ~IsNode(base) /\ base.sort = "Struct"
                    /\ member \in DOMAIN S.structs[base.ref]
                 THEN S.structs[base.ref][member]
                 ELSE None
        ELSE None

set_or_add_var(S, sid, name, val) ==
    IF name \notin DOMAIN S.states[sid].vars /\ IsMemberRef(S, sid, name)
    THEN LET base == S.states[sid].vars[BaseOf(S, sid, name)]
             member == MemberOf(S, sid, name)
         IN  [S EXCEPT !.structs[base.ref] = (member :> val) @@ @]
    ELSE [S EXCEPT !.states[sid].vars = (name :> val) @@ @]

del_var(S, sid, name) ==
    [S EXCEPT !.states[sid].vars =
        [n \in (DOMAIN @) \ {name} |-> @[n]]]

insert_exprs(S, sid, exprs) ==
    [S EXCEPT !.states[sid].expr_chain = exprs \o @]

clear_expr_chain(S, sid) == [S EXCEPT !.states[sid].expr_chain = <<>>]

\* the bindings of a state, Struct objects replaced by their members
Bindings(S, sid) ==
    LET bound == S.states[sid].vars
    IN  [n \in DOMAIN bound |->
            IF ~IsNode(bound[n]) /\ bound[n].sort = "Struct"
            THEN [sort |-> "members", members |-> S.structs[bound[n].ref]]
            ELSE bound[n]]

get_z3_repr(S, sid) == [sort |-> "repr", vars |-> Bindings(S, sid)]

\* copy.copy of a Struct: a new object with the same members
copy_struct(S, val) ==
    [val |-> StructRef(Len(S.structs) + 1),
     S |-> [S EXCEPT !.structs = Append(@, S.structs[val.ref])]]

StructRefs(S, sid) ==
    {S.states[sid].vars[n].ref :
        n \in {m \in DOMAIN S.states[sid].vars :
                  ~IsNode(S.states[sid].vars[m])
                      /\ S.states[sid].vars[m].sort = "Struct"}}

Rank(r, refs) == Cardinality({q \in refs : q <= r})

\* copy.deepcopy of a P4State: the bindings, the expr_chain and every
\* Struct object reachable from the bindings are duplicated
deepcopy(S, sid) ==
    LET refs == StructRefs(S, sid)
        base == Len(S.structs)
        old == S.states[sid]
        copies == [i \in 1..Cardinality(refs) |->
                      S.structs[CHOOSE r \in refs : Rank(r, refs) = i]]
        bound == [n \in DOMAIN old.vars |->
                     IF ~IsNode(old.vars[n]) /\ old.vars[n].sort = "Struct"
                     THEN StructRef(base + Rank(old.vars[n].ref, refs))
                     ELSE old.vars[n]]
    IN  [sid |-> Len(S.states) + 1,
         S |-> [S EXCEPT !.states = Append(@, [old EXCEPT !.vars = bound]),
                         !.structs = @ \o copies]]

(***************************************************************************)
(* Callables of the registry.                                              *)
(***************************************************************************)
\* add_parameter((is_ref, param_name, param_type))
add_parameter(is_ref, param_name, param_type) ==
    [is_ref |-> is_ref, name |-> param_name, param_type |-> param_type]

Param(is_ref, name) == add_parameter(is_ref, name, DeclareSort)

P4Action(params, exprs) ==
    [callable |-> "P4Action", params |-> params, block |-> BlockStatement(exprs),
     return_type |-> "None"]

P4Function(params, exprs, return_type) ==
    [callable |-> "P4Function", params |-> params,
     block |-> BlockStatement(exprs), return_type |-> return_type]

P4Extern(name, params, return_type) ==
    [callable |-> "P4Extern", name |-> name, params |-> params,
     block |-> BlockStatement(<<>>), return_type |-> return_type]

\* a control: the locals are declarations at the head of the block
P4Control(params, exprs) ==
    [callable |-> "P4Control", params |-> params, block |-> BlockStatement(exprs),
     return_type |-> "None"]

Lit(v) == Value(BitVecVal(v, ByteWidth))

Registry ==
    [NoAction |-> P4Action(<<>>, <<>>),
     \* an action that assigns to its `in` parameter
     set_p |-> P4Action(<<Param("in", "p")>>,
                        <<AssignmentStatement("p", Lit(1))>>),
     \* the same, with the parameter named like the caller's variable
     set_x |-> P4Action(<<Param("in", "x")>>,
                        <<AssignmentStatement("x", Lit(1))>>),
     \* reads its parameter only
     get_p |-> P4Action(<<Param("in", "p")>>,
                        <<AssignmentStatement("y", Name("p"))>>),
     io_p |-> P4Action(<<Param("inout", "p")>>,
                       <<AssignmentStatement("p", Lit(1))>>),
     out_p |-> P4Action(<<Param("out", "p")>>, <<>>),
     \* the actions of the table: r tells which one ran, and on what
     A |-> P4Action(<<Param("in", "a")>>, <<AssignmentStatement("r", Name("a"))>>),
     B |-> P4Action(<<Param("in", "b")>>, <<AssignmentStatement("r", Name("b"))>>),
     ext |-> P4Extern("ext", <<Param("inout", "e")>>, "bool"),
     \* an extern of two inputs that returns a value
     ext2 |-> P4Extern("ext2", <<Param("in", "a"), Param("in", "b")>>, "bv"),
     \* functions with a return type: the body returns its parameter, writes
     \* a variable of the caller before it returns, has no return statement
     f_id |-> P4Function(<<Param("in", "p")>>, <<P4Return(Name("p"))>>, "bv"),
     f_set |-> P4Function(<<>>, <<AssignmentStatement("x", Lit(1)),
                                  P4Return(Name("x"))>>, "bv"),
     f_run |-> P4Function(<<>>, <<AssignmentStatement("x", Lit(1))>>, "bv"),
     \* actions that return or exit before their last statement
     ret_a |-> P4Action(<<>>, <<P4Return(NoneNode),
                                AssignmentStatement("x", Lit(1))>>),
     exit_a |-> P4Action(<<>>, <<P4Exit, AssignmentStatement("x", Lit(1))>>),
     \* actions that write their parameter and exit; an action that calls one
     exit_io |-> P4Action(<<Param("inout", "p")>>,
                          <<AssignmentStatement("p", Lit(1)), P4Exit,
                            AssignmentStatement("p", Lit(5))>>),
     exit_out |-> P4Action(<<Param("out", "p")>>,
                           <<AssignmentStatement("p", Lit(1)), P4Exit>>),
     call_exit |-> P4Action(<<Param("inout", "q")>>,
                            <<MethodCallStmt(MethodCallExpr("exit_io",
                                                            <<Name("q")>>)),
                              AssignmentStatement("q", Lit(5))>>),
     \* controls with a local l that write their parameter
     c_in |-> P4Control(<<Param("in", "p")>>,
                        <<P4Declaration("l", Lit(2)),
                          AssignmentStatement("p", Lit(1))>>),
     c_out |-> P4Control(<<Param("out", "p")>>,
                         <<P4Declaration("l", Lit(2)),
                           AssignmentStatement("p", Lit(1))>>),
     c_io |-> P4Control(<<Param("inout", "p")>>,
                        <<P4Declaration("l", Name("p")),
                          AssignmentStatement("p", Lit(1))>>),
     c_s |-> P4Control(<<add_parameter("out", "s", BitVecSort(4))>>,
                       <<AssignmentStatement("s", Value(BitVecVal(9, 4)))>>),
     \* actions on four bits, called on slices of a variable
     out_s |-> P4Action(<<add_parameter("out", "s", BitVecSort(4))>>, <<>>),
     set_s |-> P4Action(<<add_parameter("out", "s", BitVecSort(4))>>,
                        <<AssignmentStatement("s", Value(BitVecVal(9, 4)))>>),
     io_s |-> P4Action(<<add_parameter("inout", "s", BitVecSort(4))>>,
                       <<AssignmentStatement("s", Value(BitVecVal(9, 4)))>>)]

\* merge_parameters with every pair tagged `in`
merge_parameters_untagged(callee, args) ==
    [idx \in 1..(IF Len(args) < Len(callee.params) THEN Len(args)
                 ELSE Len(callee.params)) |->
        [param_name |-> callee.params[idx].name,
         is_ref |-> "in",
         arg |-> args[idx]]]

\* P4Callable.merge_parameters on positional arguments
merge_parameters(callee, args) ==
    [idx \in 1..(IF Len(args) < Len(callee.params) THEN Len(args)
                 ELSE Len(callee.params)) |->
        [param_name |-> callee.params[idx].name,
         is_ref |-> callee.params[idx].is_ref,
         arg |-> args[idx]]]

\* merged_params[arg_name] = value on the insertion-ordered dict
merged_set(merged_params, value) ==
    IF \E i \in 1..Len(merged_params) :
           merged_params[i].param_name = value.param_name
    THEN [i \in 1..Len(merged_params) |->
             IF merged_params[i].param_name = value.param_name THEN value
             ELSE merged_params[i]]
    ELSE Append(merged_params, value)

\* P4Callable.merge_parameters: the loop over the named arguments from
\* index idx on; a name that is no parameter is a KeyError
RECURSIVE merge_kwargs(_, _, _, _)
merge_kwargs(self, merged_params, kwargs, idx) ==
    IF idx > Len(kwargs) THEN [raised |-> FALSE, merged_params |-> merged_params]
    ELSE IF \A i \in 1..Len(self.params) :
                self.params[i].name # kwargs[idx].arg_name
    THEN [raised |-> TRUE, merged_params |-> merged_params]
    ELSE merge_kwargs(self,
             merged_set(merged_params,
                 [param_name |-> kwargs[idx].arg_name,
                  is_ref |-> self.params[CHOOSE i \in 1..Len(self.params) :
                      self.params[i].name = kwargs[idx].arg_name].is_ref,
                  arg |-> kwargs[idx].arg_val]),
             kwargs, idx + 1)

\* P4Callable.eval, P4Extern.eval: self.call_counter += 1
call_counter_add(S, p4_method) == [S EXCEPT !.call_counter[p4_method] = @ + 1]

\* P4Callable.save_variables: the buffer holds the merged parameters
save_variables(S, sid, merged_params) == merged_params

(***************************************************************************)
(* Expressions.  resolve_expr and the eval of an expression node return    *)
(* the value and the store as the evaluation left it; the value Raise      *)
(* stands for an exception, which every caller passes on.                  *)
(***************************************************************************)
Result(val, S) == [val |-> val, S |-> S]

\* the rest of a function after a call that may raise
Then(r, rest(_)) == IF r.val = Raise THEN r ELSE rest(r)

\* the truth value Python gives `val == False` / `val == True`
PyEq(val, b) ==
    \/ val = BoolVal(b)
    \/ val.sort = "int" /\ val.int = (IF b THEN 1 ELSE 0)

align_bitvecs(bitvec1, bitvec2) ==
    IF bitvec1.sort = "bv" /\ bitvec2.sort = "bv"
    THEN IF size(bitvec1) < size(bitvec2)
         THEN <<z3_cast(bitvec1, IntSize(size(bitvec2))), bitvec2>>
         ELSE IF size(bitvec1) > size(bitvec2)
         THEN <<bitvec1, z3_cast(bitvec2, IntSize(size(bitvec1)))>>
         ELSE <<bitvec1, bitvec2>>
    ELSE <<bitvec1, bitvec2>>

RECURSIVE resolve_expr(_, _, _)
RECURSIVE eval_expr(_, _, _)
RECURSIVE P4Extern_eval(_, _, _, _, _, _)
RECURSIVE P4Slice_eval(_, _, _)
RECURSIVE P4Extern_eval_counted(_, _, _, _, _, _)
RECURSIVE P4Function_eval(_, _, _, _)
RECURSIVE step(_, _)
RECURSIVE node_eval(_, _, _)

RECURSIVE resolve_list(_, _, _, _)
\* a loop over a list that drops the elements behind the first
resolve_list_first(S, sid, val, list_expr) ==
    IF val = <<>> THEN Result(PyList(list_expr), S)
    ELSE Then(resolve_expr(S, sid, Head(val)),
              LAMBDA r : Result(PyList(Append(list_expr, r.val)), r.S))

\* the loop over a list: each element resolved, in order, into list_expr
resolve_list(S, sid, val, list_expr) ==
    IF val = <<>> THEN Result(PyList(list_expr), S)
    ELSE Then(resolve_expr(S, sid, Head(val)),
              LAMBDA r : resolve_list(r.S, sid, Tail(val),
                                      Append(list_expr, r.val)))

\* the loop over a dict: dict_expr is a list, and storing the first
\* resolved value under its name raises TypeError
resolve_dict(S, sid, val) ==
    IF val.keys = <<>> THEN Result(PyList(<<>>), S)
    ELSE Then(resolve_expr(S, sid, val.items[1]),
              LAMBDA r : Result(Raise, r.S))

\* a resolve_expr that gives a missing reference a fresh constant
resolve_val_default(S, sid, val) ==
    IF val = None THEN Result(Const("undefined"), S)
    ELSE IF IsNode(val)
    THEN Then(eval_expr(S, sid, val),
              LAMBDA r : resolve_expr(r.S, sid, Value(r.val)))
    ELSE IF val.sort = "Struct" THEN copy_struct(S, val)
    ELSE Result(val, S)

\* resolve_expr once the reference, if any, is looked up
resolve_val(S, sid, val) ==
    IF val = None THEN Result(Raise, S)
    ELSE IF IsNode(val)
    THEN Then(eval_expr(S, sid, val),
              LAMBDA r : resolve_expr(r.S, sid, Value(r.val)))
    ELSE IF val.sort = "Struct" THEN copy_struct(S, val)
    ELSE IF val.sort = "Enum" THEN Result(val, S)
    ELSE IF val.sort = "list" THEN resolve_list(S, sid, val.items, <<>>)
    ELSE IF val.sort = "dict" THEN resolve_dict(S, sid, val)
    ELSE Result(val, S)

resolve_expr(S, sid, expr) ==
    resolve_val(S, sid,
        IF expr.node = "str" THEN resolve_reference(S, sid, expr.str)
        ELSE IF expr.node = "z3" THEN expr.val
        ELSE expr)

\* a Python int as the 64-bit vector P4Slice.eval and slice_assign make of it
ToBitVec(val) ==
    IF val.sort = "int" THEN BitVecVal(val.int, IntWidth) ELSE val

P4Slice_eval(S, sid, self) ==
    Then(resolve_expr(S, sid, self.val), LAMBDA val_expr :
        IF ToBitVec(val_expr.val).sort # "bv"
        THEN Result(Raise, val_expr.S)
        ELSE IF Extract(self.slice_l, self.slice_r, ToBitVec(val_expr.val)) = Z3Error
        THEN Result(Raise, val_expr.S)
        ELSE Result(Extract(self.slice_l, self.slice_r, ToBitVec(val_expr.val)),
                    val_expr.S))

\* P4land.eval without the early return
P4land_eval_eager(S, sid, self) ==
    Then(resolve_expr(S, sid, self.lval), LAMBDA l :
        Then(resolve_expr(l.S, sid, self.rval), LAMBDA r :
            IF PyEq(l.val, FALSE) THEN Result(BoolVal(FALSE), r.S)
            ELSE Result(z3_And(align_bitvecs(l.val, r.val)), r.S)))

P4land_eval(S, sid, self) ==
    Then(resolve_expr(S, sid, self.lval), LAMBDA l :
        IF PyEq(l.val, FALSE) THEN Result(BoolVal(FALSE), l.S)
        ELSE Then(resolve_expr(l.S, sid, self.rval), LAMBDA r :
                 Result(z3_And(align_bitvecs(l.val, r.val)), r.S)))

P4lor_eval(S, sid, self) ==
    Then(resolve_expr(S, sid, self.lval), LAMBDA l :
        IF PyEq(l.val, TRUE) THEN Result(BoolVal(TRUE), l.S)
        ELSE Then(resolve_expr(l.S, sid, self.rval), LAMBDA r :
                 Result(z3_Or(align_bitvecs(l.val, r.val)), r.S)))

\* an extern whose returned instance is named after the call order
P4Extern_eval_counted(S, sid, self, merged_params, idx, var_name) ==
    IF idx > Len(merged_params)
    THEN IF self.return_type # "None"
         THEN Result(Instance(self.name \o "_"
                                  \o ToString(S.call_counter[self.name])), S)
         ELSE Result(get_z3_repr(S, sid), S)
    ELSE Then(resolve_expr(S, sid, merged_params[idx].arg), LAMBDA arg_expr :
            P4Extern_eval_counted(
                IF merged_params[idx].is_ref \in {"out", "inout"}
                THEN set_or_add_var(arg_expr.S, sid, merged_params[idx].arg.str,
                         Const(self.name \o "_" \o merged_params[idx].param_name))
                ELSE arg_expr.S,
                sid, self, merged_params, idx + 1,
                var_name \o z3_str(arg_expr.val)))

\* P4Extern.eval: the loop over the merged parameters from index idx on,
\* var_name being the argument values gathered so far
P4Extern_eval(S, sid, self, merged_params, idx, var_name) ==
    IF idx > Len(merged_params)
    THEN IF self.return_type # "None"
         THEN Result(Instance(self.name \o "_" \o var_name), S)
         ELSE Result(get_z3_repr(S, sid), S)
    ELSE Then(resolve_expr(S, sid, merged_params[idx].arg), LAMBDA arg_expr :
            P4Extern_eval(
                IF merged_params[idx].is_ref \in {"out", "inout"}
                THEN set_or_add_var(arg_expr.S, sid, merged_params[idx].arg.str,
                         Const(self.name \o "_" \o merged_params[idx].param_name))
                ELSE arg_expr.S,
                sid, self, merged_params, idx + 1,
                var_name \o z3_str(arg_expr.val)))

eval_expr(S, sid, expr) ==
    CASE expr.node = "P4land" -> P4land_eval(S, sid, expr)
      [] expr.node = "P4lor" -> P4lor_eval(S, sid, expr)
      [] expr.node = "P4Slice" -> P4Slice_eval(S, sid, expr)
      [] expr.node = "MethodCallExpr" ->
            IF Registry[expr.p4_method].callable = "P4Extern"
            THEN P4Extern_eval(call_counter_add(S, expr.p4_method), sid,
                     Registry[expr.p4_method],
                     merge_parameters(Registry[expr.p4_method], expr.args),
                     1, "")
            ELSE IF Registry[expr.p4_method].callable = "P4Function"
            THEN P4Function_eval(call_counter_add(S, expr.p4_method), sid,
                     Registry[expr.p4_method], expr.args)
            ELSE Result(Raise, S)
      [] OTHER -> Result(Raise, S)

(***************************************************************************)
(* Callables.                                                              *)
(***************************************************************************)
param_sort(self, param_name) ==
    self.params[CHOOSE i \in 1..Len(self.params) :
                    self.params[i].name = param_name].param_type

\* set_or_add_var of what slice_assign returned, if it returned
set_sliced(S, sid, name, val) ==
    IF val = Z3Error THEN Result(Raise, S)
    ELSE Result(None, set_or_add_var(S, sid, name, val))

\* an `out` argument bound as a whole also when it is a slice
bind_out_whole(S, sid, self, param) ==
    Result(None,
        set_or_add_var(S, sid,
            IF param.arg.node = "P4Slice" THEN param.arg.val.str
            ELSE param.arg.str,
            z3_Const(param.param_name, param_sort(self, param.param_name))))

\* P4Action.eval_callable: the argument of an `out` parameter gets a fresh
\* constant, in the bits of the slice when the argument is a slice
bind_out(S, sid, self, param) ==
    IF param.arg.node = "P4Slice"
    THEN Then(resolve_expr(S, sid, param.arg.val), LAMBDA arg_val :
             set_sliced(arg_val.S, sid, param.arg.val.str,
                 slice_assign(arg_val.val,
                     z3_Const(param.param_name,
                              param_sort(self, param.param_name)),
                     param.arg.slice_l, param.arg.slice_r)))
    ELSE Result(None,
             set_or_add_var(S, sid, param.arg.str,
                 z3_Const(param.param_name,
                          param_sort(self, param.param_name))))

\* P4Action.eval_callable: the loop that binds the merged parameters
RECURSIVE bind_parameters(_, _, _, _, _)
bind_parameters(S, sid, self, merged_params, idx) ==
    IF idx > Len(merged_params) THEN Result(None, S)
    ELSE Then(IF merged_params[idx].is_ref = "out"
              THEN bind_out(S, sid, self, merged_params[idx])
              ELSE Result(None, S),
         LAMBDA out :
             Then(resolve_expr(out.S, sid, merged_params[idx].arg),
                  LAMBDA arg :
                      bind_parameters(
                          set_or_add_var(arg.S, sid,
                              merged_params[idx].param_name, arg.val),
                          sid, self, merged_params, idx + 1)))

\* P4Callable.eval and P4Action.eval_callable up to the call of step()
P4Action_eval(S, sid, self, args) ==
    Then(bind_parameters(S, sid, self, merge_parameters(self, args), 1),
         LAMBDA bound :
             Result(None,
                    insert_exprs(bound.S, sid,
                        <<self.block,
                          P4Context(save_variables(S, sid,
                                        merge_parameters(self, args)))>>)))

\* a copy-out that writes the whole target also when it is a slice
copy_out_whole(S, sid, param) ==
    Result(None,
        set_or_add_var(S, sid,
            IF param.arg.node = "P4Slice" THEN param.arg.val.str
            ELSE param.arg.str,
            resolve_reference(S, sid, param.param_name)))

\* P4Context.eval: the value of an `out` or `inout` parameter goes to its
\* argument, into the bits of the slice when the argument is a slice
copy_out(S, sid, param) ==
    IF param.arg.node = "P4Slice"
    THEN Then(resolve_expr(S, sid, param.arg.val), LAMBDA arg_val :
             set_sliced(arg_val.S, sid, param.arg.val.str,
                 slice_assign(arg_val.val,
                     resolve_reference(S, sid, param.param_name),
                     param.arg.slice_l, param.arg.slice_r)))
    ELSE Result(None,
             set_or_add_var(S, sid, param.arg.str,
                 resolve_reference(S, sid, param.param_name)))

\* P4Context.eval: the loop over the buffer (no saved state: p4_state is
\* the state the Context is evaluated on)
RECURSIVE restore_variables(_, _, _, _)
restore_variables(S, sid, var_buffer, idx) ==
    IF idx > Len(var_buffer) THEN Result(None, S)
    ELSE Then(IF var_buffer[idx].arg = NoneNode
              THEN Result(None, del_var(S, sid, var_buffer[idx].param_name))
              ELSE IF var_buffer[idx].is_ref \in {"inout", "out"}
              THEN copy_out(S, sid, var_buffer[idx])
              ELSE Result(None,
                       set_or_add_var(S, sid, var_buffer[idx].param_name,
                           resolve_reference(S, sid,
                                             var_buffer[idx].param_name))),
         LAMBDA restored :
             restore_variables(restored.S, sid, var_buffer, idx + 1))

\* copy.copy of a P4State: a new object with the same bindings (the same
\* Struct objects) and the same expr_chain
copy_state(S, sid) ==
    [sid |-> Len(S.states) + 1,
     S |-> [S EXCEPT !.states = Append(@, S.states[sid])]]

\* z3_reg.init_p4_state(name, params): a state of the parameters
init_p4_state(S, self) ==
    [sid |-> Len(S.states) + 1,
     S |-> [S EXCEPT !.states = Append(@,
              [vars |-> [n \in {self.params[i].name : i \in DOMAIN self.params}
                           |-> z3_Const(n, param_sort(self, n))],
               expr_chain |-> <<>>])]]

\* P4Control.eval: the loop that binds the merged parameters; an `out`
\* target is written in the caller's state, the parameter in the context
RECURSIVE bind_control(_, _, _, _, _, _)
bind_control(S, sid, context, self, merged_params, idx) ==
    IF idx > Len(merged_params) THEN Result(None, S)
    ELSE Then(IF merged_params[idx].is_ref = "out"
              THEN bind_out(S, sid, self, merged_params[idx])
              ELSE Result(None, S),
         LAMBDA out :
             Then(resolve_expr(out.S, sid, merged_params[idx].arg),
                  LAMBDA arg :
                      bind_control(
                          set_or_add_var(arg.S, context,
                              merged_params[idx].param_name, arg.val),
                          sid, context, self, merged_params, idx + 1)))

\* P4Control.eval up to the call of step(): val is the state of the control
P4Control_eval_callable(S, sid, self, args) ==
    LET p4_state_context == init_p4_state(S, self)
        p4_state_cpy == copy_state(p4_state_context.S, sid)
        merged_params == merge_parameters(self, args)
        var_buffer == save_variables(S, sid, merged_params)
    IN  Then(bind_control(p4_state_cpy.S, sid, p4_state_context.sid, self,
                          merged_params, 1),
             LAMBDA bound :
                 Result([sort |-> "P4State", sid |-> p4_state_context.sid],
                     insert_exprs(
                         [bound.S EXCEPT
                             !.states[p4_state_context.sid].expr_chain =
                                 bound.S.states[sid].expr_chain],
                         p4_state_context.sid,
                         <<self.block,
                           P4ContextOf(var_buffer, p4_state_cpy.sid)>>)))

\* P4Context.eval: copy-out from the context into the saved state
copy_out_saved(S, p4_state, p4_context, param) ==
    IF param.arg.node = "P4Slice"
    THEN Then(resolve_expr(S, p4_state, param.arg.val), LAMBDA arg_val :
             set_sliced(arg_val.S, p4_state, param.arg.val.str,
                 slice_assign(arg_val.val,
                     resolve_reference(S, p4_context, param.param_name),
                     param.arg.slice_l, param.arg.slice_r)))
    ELSE Result(None,
             set_or_add_var(S, p4_state, param.arg.str,
                 resolve_reference(S, p4_context, param.param_name)))

\* P4Context.eval with a saved state: the loop over the buffer
RECURSIVE restore_saved(_, _, _, _, _)
restore_saved(S, p4_state, p4_context, var_buffer, idx) ==
    IF idx > Len(var_buffer) THEN Result(None, S)
    ELSE Then(IF var_buffer[idx].arg = NoneNode
              THEN Result(None, del_var(S, p4_state, var_buffer[idx].param_name))
              ELSE IF var_buffer[idx].is_ref \in {"inout", "out"}
              THEN copy_out_saved(S, p4_state, p4_context, var_buffer[idx])
              ELSE Result(None,
                       set_or_add_var(S, p4_state, var_buffer[idx].param_name,
                           resolve_reference(S, p4_state,
                                             var_buffer[idx].param_name))),
         LAMBDA restored :
             restore_saved(restored.S, p4_state, p4_context, var_buffer,
                           idx + 1))

(***************************************************************************)
(* The evaluation run to its end: step() and the eval() of the statements  *)
(* a function body is made of, as the Python calls nest.                   *)
(***************************************************************************)
step(S, sid) ==
    IF S.states[sid].expr_chain = <<>> THEN Result(get_z3_repr(S, sid), S)
    ELSE node_eval([S EXCEPT !.states[sid].expr_chain = Tail(@)], sid,
                   Head(S.states[sid].expr_chain))

IfStatement_eval_nested(S, sid, self) ==
    Then(resolve_expr(S, sid, self.cond), LAMBDA cond :
        Then(node_eval(deepcopy(cond.S, sid).S, deepcopy(cond.S, sid).sid,
                       self.then_block),
             LAMBDA then_expr :
                 Then(IF self.else_block # NoneNode
                      THEN node_eval(then_expr.S, sid, self.else_block)
                      ELSE step(then_expr.S, sid),
                      LAMBDA else_expr :
                          Result(z3_If(cond.val, then_expr.val, else_expr.val),
                                 else_expr.S))))

node_eval(S, sid, self) ==
    CASE self.node = "AssignmentStatement" ->
            Then(resolve_expr(S, sid, self.rval), LAMBDA rval_expr :
                step(set_or_add_var(rval_expr.S, sid, self.lval.str,
                                    rval_expr.val), sid))
      [] self.node = "P4Declaration" ->
            step(set_or_add_var(S, sid, self.lval.str,
                                IF self.rval.node = "z3" THEN self.rval.val
                                ELSE self.rval), sid)
      [] self.node = "BlockStatement" ->
            step(insert_exprs(S, sid, self.exprs), sid)
      [] self.node = "IfStatement" -> IfStatement_eval_nested(S, sid, self)
      [] self.node = "P4Exit" -> step(clear_expr_chain(S, sid), sid)
      [] self.node = "P4Return" ->
            IF self.expr = NoneNode THEN Result(get_z3_repr(S, sid), S)
            ELSE resolve_expr(S, sid, self.expr)
      [] self.node = "P4Context" ->
            Then(restore_variables(S, sid, self.var_buffer, 1),
                 LAMBDA restored : step(restored.S, sid))
      [] OTHER -> Result(Raise, S)

\* P4Callable.eval and P4Function.eval_callable: with a return type the
\* block is evaluated without a Context behind it
P4Function_eval(S, sid, self, args) ==
    Then(bind_parameters(S, sid, self, merge_parameters(self, args), 1),
         LAMBDA bound :
             IF self.return_type # "None"
             THEN node_eval(bound.S, sid, self.block)
             ELSE step(insert_exprs(bound.S, sid,
                           <<self.block,
                             P4Context(save_variables(S, sid,
                                           merge_parameters(self, args)))>>),
                       sid))

(***************************************************************************)
(* P4Table: construction.                                                  *)
(***************************************************************************)
MaxKeys == 2       \* add_match calls
MaxActions == 2    \* add_action calls
MaxEntries == 1    \* add_const_entry calls that store an entry

z3_Eq(a, b) == [sort |-> "Eq", lhs |-> a, rhs |-> b]
IntVal(i) == [sort |-> "IntVal", int |-> i]

P4Table(name) ==
    [name |-> name, keys |-> <<>>, const_entries |-> <<>>, actions |-> <<>>,
     default_action |-> NoneNode, tbl_action |-> Const(name \o "_action")]

P4TableNode == [node |-> "P4Table"]

resolve_action(action_expr) ==
    IF action_expr.node = "MethodCallExpr"
    THEN [action_name |-> action_expr.p4_method, action_args |-> action_expr.args]
    ELSE [action_name |-> action_expr.str, action_args |-> <<>>]

\* self.actions[action_name] = value on an OrderedDict: a known key keeps
\* its place, a new key goes to the end
OrderedDictSet(dict, key, value) ==
    IF \E i \in 1..Len(dict) : dict[i].key = key
    THEN [i \in 1..Len(dict) |-> IF dict[i].key = key THEN value ELSE dict[i]]
    ELSE Append(dict, value)

add_action(self, action_expr) ==
    [self EXCEPT !.actions =
        OrderedDictSet(@, resolve_action(action_expr).action_name,
            [key |-> resolve_action(action_expr).action_name,
             index |-> Len(self.actions) + 1,
             action_name |-> resolve_action(action_expr).action_name,
             action_args |-> resolve_action(action_expr).action_args])]

add_default(self, action_expr) ==
    [self EXCEPT !.default_action =
        [index |-> 0,
         action_name |-> resolve_action(action_expr).action_name,
         action_args |-> resolve_action(action_expr).action_args]]

add_match(self, table_key) == [self EXCEPT !.keys = Append(@, table_key)]

\* add_const_entry raises when the lengths differ
add_const_entry_raises(self, const_keys) == Len(self.keys) # Len(const_keys)

add_const_entry(self, const_keys, action_expr) ==
    [self EXCEPT !.const_entries =
        Append(@, [const_keys |-> const_keys,
                   action_name |-> resolve_action(action_expr).action_name,
                   action_args |-> resolve_action(action_expr).action_args])]

(***************************************************************************)
(* P4Table: the parts of eval that run between two calls of step().        *)
(***************************************************************************)
\* eval_keys: the loop over enumerate(self.keys), pairs gathered so far
RECURSIVE eval_key_pairs(_, _, _, _, _)
eval_key_pairs(S, sid, self, index, key_pairs) ==
    IF index >= Len(self.keys) THEN Result(z3_And(key_pairs), S)
    ELSE Then(resolve_expr(S, sid, self.keys[index + 1]), LAMBDA key_eval :
            eval_key_pairs(key_eval.S, sid, self, index + 1,
                Append(key_pairs,
                       z3_Eq(key_eval.val,
                             Const(self.name \o "_key_" \o ToString(index))))))

\* eval_keys without the test for an empty key list
eval_keys_no_test(S, sid, self) == eval_key_pairs(S, sid, self, 0, <<>>)

eval_keys(S, sid, self) ==
    IF self.keys = <<>> THEN Result(BoolVal(FALSE), S)
    ELSE eval_key_pairs(S, sid, self, 0, <<>>)

\* eval_table: the match expression of one constant entry; const_keys[index]
\* beyond the end of the tuple is an IndexError
RECURSIVE const_matches(_, _, _, _, _, _)
const_matches(S, sid, self, const_keys, index, matches) ==
    IF index >= Len(self.keys) THEN Result(z3_And(matches), S)
    ELSE Then(resolve_expr(S, sid, self.keys[index + 1]), LAMBDA key_eval :
            IF index >= Len(const_keys) THEN Result(Raise, S)
            ELSE IF const_keys[index + 1] = Name("default")
            THEN const_matches(key_eval.S, sid, self, const_keys, index + 1,
                               matches)
            ELSE Then(resolve_expr(key_eval.S, sid, const_keys[index + 1]),
                      LAMBDA c_key_eval :
                          const_matches(c_key_eval.S, sid, self, const_keys,
                              index + 1,
                              Append(matches,
                                     z3_Eq(key_eval.val, c_key_eval.val)))))

\* eval_action: the arguments the entry does not give are constants named
\* after the table and the parameter
action_args(self, p4_action, p4_action_args) ==
    [idx \in 1..Len(p4_action.params) |->
        IF idx > Len(p4_action_args)
        THEN Value(Const(self.name \o p4_action.params[idx].name))
        ELSE p4_action_args[idx]]

\* eval_action up to the call of step()
eval_action(S, sid, self, action_name, p4_action_args) ==
    IF action_name \notin DOMAIN Registry THEN Result(Raise, S)
    ELSE IF Registry[action_name].callable # "P4Action" THEN Result(Raise, S)
    ELSE P4Action_eval(call_counter_add(S, action_name), sid,
             Registry[action_name],
             action_args(self, Registry[action_name], p4_action_args))

\* eval_default: a table without a default action gets NoAction
eval_default_action(self) ==
    IF self.default_action = NoneNode
    THEN [self EXCEPT !.default_action =
             [index |-> 0, action_name |-> "NoAction", action_args |-> <<>>]]
    ELSE self

\* the action effect on the state itself instead of a copy
fork_action_shared(S, sid, self, action_name, p4_action_args) ==
    [sid |-> sid,
     started |-> eval_action(S, sid, self, action_name, p4_action_args)]

\* the action effect on a copy of the state, up to the call of step():
\* the copy and the store
fork_action(S, sid, self, action_name, p4_action_args) ==
    [sid |-> deepcopy(S, sid).sid,
     started |-> eval_action(deepcopy(S, sid).S, deepcopy(S, sid).sid, self,
                             action_name, p4_action_args)]

(***************************************************************************)
(* The evaluation as a machine.  step() takes the next node off the        *)
(* expr_chain of a state and calls its eval(); an eval() that needs the    *)
(* result of a nested evaluation leaves a frame on the stack.              *)
(***************************************************************************)
Store ==
    [states |-> states, structs |-> structs, call_counter |-> call_counter]

Put(S) ==
    /\ states' = S.states
    /\ structs' = S.structs
    /\ call_counter' = S.call_counter

Top == stack[Len(stack)]

Pop == SubSeq(stack, 1, Len(stack) - 1)

\* an exception leaves the evaluation without a formula
Fail(where) ==
    /\ pc' = "error" /\ at' = where
    /\ UNCHANGED <<states, structs, call_counter, stack, cur, node, ret, fixed>>

\* step() on a state with pending nodes
step_next ==
    /\ pc = "step"
    /\ states[cur].expr_chain # <<>>
    /\ node' = Head(states[cur].expr_chain)
    /\ states' = [states EXCEPT ![cur].expr_chain = Tail(@)]
    /\ pc' = "eval" /\ at' = "step"
    /\ UNCHANGED <<structs, call_counter, stack, cur, ret, fixed>>

\* step() on a state whose expr_chain is empty
step_return ==
    /\ pc = "step"
    /\ states[cur].expr_chain = <<>>
    /\ ret' = get_z3_repr(Store, cur)
    /\ pc' = "return" /\ at' = "step.return"
    /\ UNCHANGED <<states, structs, call_counter, stack, cur, node, fixed>>

\* the outermost call has returned
Finish ==
    /\ pc = "return" /\ stack = <<>>
    /\ pc' = "done" /\ at' = "done"
    /\ UNCHANGED <<states, structs, call_counter, stack, cur, node, ret, fixed>>

\* an assignment that stores its right side as it is written
AssignmentStatement_eval_unresolved ==
    /\ pc = "eval" /\ node.node = "AssignmentStatement"
    /\ Put(set_or_add_var(Store, cur, node.lval.str,
                          IF node.rval.node = "z3" THEN node.rval.val
                          ELSE node.rval))
    /\ pc' = "step" /\ at' = "AssignmentStatement"
    /\ UNCHANGED <<stack, cur, node, ret, fixed>>

AssignmentStatement_eval ==
    /\ pc = "eval" /\ node.node = "AssignmentStatement"
    /\ \E rval_expr \in {resolve_expr(Store, cur, node.rval)} :
          IF rval_expr.val = Raise THEN Fail("AssignmentStatement")
          ELSE /\ Put(set_or_add_var(rval_expr.S, cur, node.lval.str,
                                     rval_expr.val))
               /\ pc' = "step" /\ at' = "AssignmentStatement"
               /\ UNCHANGED <<stack, cur, node, ret, fixed>>

\* a search that adds the offset of the slice next to the target only
find_nested_slice_one(lval, slice_l, slice_r) ==
    IF lval.node = "P4Slice"
    THEN <<(IF lval.val.node = "P4Slice" THEN lval.val.val ELSE lval.val),
           lval.slice_r + slice_l, lval.slice_r + slice_r>>
    ELSE <<lval, slice_l, slice_r>>

RECURSIVE find_nested_slice(_, _, _)
find_nested_slice(lval, slice_l, slice_r) ==
    IF lval.node = "P4Slice"
    THEN LET found == find_nested_slice(lval.val, lval.slice_l, lval.slice_r)
             outer_slice_r == found[3]
         IN  <<found[1], outer_slice_r + slice_l, outer_slice_r + slice_r>>
    ELSE <<lval, slice_l, slice_r>>

SliceAssignment_eval ==
    /\ pc = "eval" /\ node.node = "SliceAssignment"
    /\ \E found \in {find_nested_slice(node.lval, node.slice_l, node.slice_r)} :
       \E lval_expr \in {resolve_expr(Store, cur, found[1])} :
          IF lval_expr.val = Raise THEN Fail("SliceAssignment")
          ELSE \E rval_expr \in {resolve_expr(lval_expr.S, cur, node.rval)} :
             IF rval_expr.val = Raise THEN Fail("SliceAssignment")
             ELSE \E sliced \in {slice_assign(lval_expr.val, rval_expr.val,
                                              found[2], found[3])} :
                IF sliced = Z3Error THEN Fail("SliceAssignment")
                ELSE /\ Put(set_or_add_var(rval_expr.S, cur, found[1].str,
                                           sliced))
                     /\ pc' = "step" /\ at' = "SliceAssignment"
                     /\ UNCHANGED <<stack, cur, node, ret, fixed>>

\* self.rval as the declaration holds it: a z3 value is the value, any
\* other right side is the node
Unresolved(rval) == IF rval.node = "z3" THEN rval.val ELSE rval

\* a declaration that puts itself back in front of the pending nodes
P4Declaration_eval_again ==
    /\ pc = "eval" /\ node.node = "P4Declaration"
    /\ Put(insert_exprs(set_or_add_var(Store, cur, node.lval.str,
                                       Unresolved(node.rval)),
                        cur, <<node>>))
    /\ pc' = "step" /\ at' = "P4Declaration"
    /\ UNCHANGED <<stack, cur, node, ret, fixed>>

P4Declaration_eval ==
    /\ pc = "eval" /\ node.node = "P4Declaration"
    /\ Put(set_or_add_var(Store, cur, node.lval.str, Unresolved(node.rval)))
    /\ pc' = "step" /\ at' = "P4Declaration"
    /\ UNCHANGED <<stack, cur, node, ret, fixed>>

\* an exit that leaves the action only: the Context of the call and the
\* nodes behind it stay
P4Exit_eval_body ==
    /\ pc = "eval" /\ node.node = "P4Exit"
    /\ LET chain == states[cur].expr_chain
           contexts == {i \in DOMAIN chain : chain[i].node = "P4Context"}
       IN  states' = [states EXCEPT ![cur].expr_chain =
                         IF contexts = {} THEN <<>>
                         ELSE SubSeq(chain,
                                     CHOOSE i \in contexts :
                                         \A j \in contexts : i <= j,
                                     Len(chain))]
    /\ pc' = "step" /\ at' = "P4Exit"
    /\ UNCHANGED <<structs, call_counter, stack, cur, node, ret, fixed>>

\* an exit that leaves the pending nodes where they are
P4Exit_eval_noop ==
    /\ pc = "eval" /\ node.node = "P4Exit"
    /\ Put(Store)
    /\ pc' = "step" /\ at' = "P4Exit"
    /\ UNCHANGED <<stack, cur, node, ret, fixed>>

P4Exit_eval ==
    /\ pc = "eval" /\ node.node = "P4Exit"
    /\ Put(clear_expr_chain(Store, cur))
    /\ pc' = "step" /\ at' = "P4Exit"
    /\ UNCHANGED <<stack, cur, node, ret, fixed>>

\* P4Return.eval returns to its caller without a call of step()
P4Return_eval ==
    /\ pc = "eval" /\ node.node = "P4Return"
    /\ IF node.expr = NoneNode
       THEN /\ ret' = get_z3_repr(Store, cur)
            /\ pc' = "return" /\ at' = "P4Return"
            /\ UNCHANGED <<states, structs, call_counter, stack, cur, node, fixed>>
       ELSE \E expr \in {resolve_expr(Store, cur, node.expr)} :
               IF expr.val = Raise THEN Fail("P4Return")
               ELSE /\ Put(expr.S)
                    /\ ret' = expr.val
                    /\ pc' = "return" /\ at' = "P4Return"
                    /\ UNCHANGED <<stack, cur, node, fixed>>

\* a block that puts its statements behind the pending nodes
BlockStatement_eval_back ==
    /\ pc = "eval" /\ node.node = "BlockStatement"
    /\ Put([Store EXCEPT !.states[cur].expr_chain = @ \o node.exprs])
    /\ pc' = "step" /\ at' = "BlockStatement"
    /\ UNCHANGED <<stack, cur, node, ret, fixed>>

BlockStatement_eval ==
    /\ pc = "eval" /\ node.node = "BlockStatement"
    /\ Put(insert_exprs(Store, cur, node.exprs))
    /\ pc' = "step" /\ at' = "BlockStatement"
    /\ UNCHANGED <<stack, cur, node, ret, fixed>>

\* IfStatement.eval with the then block evaluated on the state itself
IfStatement_eval_shared ==
    /\ pc = "eval" /\ node.node = "IfStatement"
    /\ \E cond \in {resolve_expr(Store, cur, node.cond)} :
          IF cond.val = Raise THEN Fail("IfStatement")
          ELSE /\ Put(cond.S)
               /\ stack' = Append(stack,
                      [frame |-> "IfStatement", self |-> node, p4_state |-> cur,
                       then_p4_state |-> cur,
                       cond |-> cond.val, then_expr |-> Pending,
                       entry |-> Bindings(cond.S, cur)])
               /\ node' = node.then_block
               /\ pc' = "eval" /\ at' = "IfStatement.then"
               /\ UNCHANGED <<cur, ret, fixed>>

\* IfStatement.eval up to the call of then_block.eval on the forked state
IfStatement_eval ==
    /\ pc = "eval" /\ node.node = "IfStatement"
    /\ \E cond \in {resolve_expr(Store, cur, node.cond)} :
          IF cond.val = Raise THEN Fail("IfStatement")
          ELSE \E then_p4_state \in {deepcopy(cond.S, cur)} :
               /\ Put(then_p4_state.S)
               /\ stack' = Append(stack,
                      [frame |-> "IfStatement", self |-> node, p4_state |-> cur,
                       then_p4_state |-> then_p4_state.sid,
                       cond |-> cond.val, then_expr |-> Pending,
                       entry |-> Bindings(cond.S, cur)])
               /\ cur' = then_p4_state.sid
               /\ node' = node.then_block
               /\ pc' = "eval" /\ at' = "IfStatement.then"
               /\ UNCHANGED <<ret, fixed>>

\* then_block.eval has returned: else_block.eval on the original state
IfStatement_else ==
    /\ pc = "return" /\ stack # <<>>
    /\ Top.frame = "IfStatement" /\ Top.then_expr = Pending
    /\ Top.self.else_block # NoneNode
    /\ stack' = [stack EXCEPT ![Len(stack)].then_expr = ret]
    /\ cur' = Top.p4_state
    /\ node' = Top.self.else_block
    /\ pc' = "eval" /\ at' = "IfStatement.else"
    /\ UNCHANGED <<states, structs, call_counter, ret, fixed>>

\* a z3_implies that takes the state as it is for the other branch
z3_implies_no_step ==
    /\ pc = "return" /\ stack # <<>>
    /\ Top.frame = "IfStatement" /\ Top.then_expr = Pending
    /\ Top.self.else_block = NoneNode
    /\ stack' = [stack EXCEPT ![Len(stack)].then_expr = ret]
    /\ cur' = Top.p4_state
    /\ ret' = get_z3_repr(Store, Top.p4_state)
    /\ pc' = "return" /\ at' = "z3_implies"
    /\ UNCHANGED <<states, structs, call_counter, node, fixed>>

\* then_block.eval has returned and there is no else: z3_implies steps on
\* with the original state
z3_implies ==
    /\ pc = "return" /\ stack # <<>>
    /\ Top.frame = "IfStatement" /\ Top.then_expr = Pending
    /\ Top.self.else_block = NoneNode
    /\ stack' = [stack EXCEPT ![Len(stack)].then_expr = ret]
    /\ cur' = Top.p4_state
    /\ pc' = "step" /\ at' = "z3_implies"
    /\ UNCHANGED <<states, structs, call_counter, node, ret, fixed>>

\* both branches have returned: z3.If(cond, then_expr, else_expr)
IfStatement_return ==
    /\ pc = "return" /\ stack # <<>>
    /\ Top.frame = "IfStatement" /\ Top.then_expr # Pending
    /\ ret' = z3_If(Top.cond, Top.then_expr, ret)
    /\ stack' = Pop
    /\ cur' = Top.p4_state
    /\ pc' = "return" /\ at' = "IfStatement.return"
    /\ UNCHANGED <<states, structs, call_counter, node, fixed>>

\* MethodCallStmt.eval of a call of an action: MethodCallExpr.eval,
\* P4Callable.eval and P4Action.eval_callable up to its step()
MethodCallStmt_eval ==
    /\ pc = "eval" /\ node.node = "MethodCallStmt"
    /\ Registry[node.method_expr.p4_method].callable = "P4Action"
    /\ \E started \in {P4Action_eval(
                           call_counter_add(Store, node.method_expr.p4_method),
                           cur, Registry[node.method_expr.p4_method],
                           node.method_expr.args)} :
          IF started.val = Raise THEN Fail("P4Action.eval_callable")
          ELSE /\ Put(started.S)
               /\ stack' = Append(stack,
                      [frame |-> "MethodCallStmt", self |-> node,
                       p4_state |-> cur, entry |-> Bindings(Store, cur)])
               /\ pc' = "step" /\ at' = "P4Action.eval_callable"
               /\ UNCHANGED <<cur, node, ret, fixed>>

\* the call has returned into MethodCallStmt.eval
MethodCallStmt_return ==
    /\ pc = "return" /\ stack # <<>>
    /\ Top.frame = "MethodCallStmt"
    /\ stack' = Pop
    /\ cur' = Top.p4_state
    /\ pc' = IF states[Top.p4_state].expr_chain # <<>> THEN "step" ELSE "return"
    /\ at' = "MethodCallStmt.return"
    /\ UNCHANGED <<states, structs, call_counter, node, ret, fixed>>

\* MethodCallStmt.eval of the application of a control: MethodCallExpr.eval
\* and P4Control.eval up to its step() on the state of the control
P4Control_eval ==
    /\ pc = "eval" /\ node.node = "MethodCallStmt"
    /\ Registry[node.method_expr.p4_method].callable = "P4Control"
    /\ \E started \in {P4Control_eval_callable(
                           call_counter_add(Store, node.method_expr.p4_method),
                           cur, Registry[node.method_expr.p4_method],
                           node.method_expr.args)} :
          IF started.val = Raise THEN Fail("P4Control.eval")
          ELSE /\ Put(started.S)
               /\ stack' = Append(stack,
                      [frame |-> "MethodCallStmt", self |-> node,
                       p4_state |-> cur, entry |-> Bindings(Store, cur)])
               /\ cur' = started.val.sid
               /\ pc' = "step" /\ at' = "P4Control.eval"
               /\ UNCHANGED <<node, ret, fixed>>

\* P4Context.eval of a Context with a saved state: the saved state takes
\* the expr_chain of the context, the buffer is restored into it, and it
\* is the state that is stepped
P4Context_eval_saved ==
    /\ pc = "eval" /\ node.node = "P4Context" /\ "p4_state" \in DOMAIN node
    /\ \E restored \in {restore_saved(
                            [Store EXCEPT !.states[node.p4_state].expr_chain =
                                states[cur].expr_chain],
                            node.p4_state, cur, node.var_buffer, 1)} :
          IF restored.val = Raise THEN Fail("P4Context")
          ELSE /\ Put(restored.S)
               /\ cur' = node.p4_state
               /\ pc' = "step" /\ at' = "P4Context.saved"
               /\ UNCHANGED <<stack, node, ret, fixed>>

P4Context_eval ==
    /\ pc = "eval" /\ node.node = "P4Context" /\ "p4_state" \notin DOMAIN node
    /\ \E restored \in {restore_variables(Store, cur, node.var_buffer, 1)} :
          IF restored.val = Raise THEN Fail("P4Context")
          ELSE /\ Put(restored.S)
               /\ pc' = "step" /\ at' = "P4Context"
               /\ UNCHANGED <<stack, cur, node, ret, fixed>>

\* eval_table with the declared actions wrapped before the constant entries
NextWork_actions_first(frame) ==
    IF frame.phase = "miss" THEN [phase |-> "return", index |-> 0]
    ELSE IF frame.phase = "default" /\ tbl.actions # <<>>
    THEN [phase |-> "action", index |-> Len(tbl.actions)]
    ELSE IF frame.phase = "action" /\ frame.index > 1
    THEN [phase |-> "action", index |-> frame.index - 1]
    ELSE IF frame.phase \in {"default", "action"} /\ tbl.const_entries # <<>>
    THEN [phase |-> "const", index |-> Len(tbl.const_entries)]
    ELSE IF frame.phase = "const" /\ frame.index > 1
    THEN [phase |-> "const", index |-> frame.index - 1]
    ELSE [phase |-> "miss", index |-> 0]

\* eval_table with the constant entries wrapped in declaration order
NextWork_entries_forward(frame) ==
    IF frame.phase = "miss" THEN [phase |-> "return", index |-> 0]
    ELSE IF frame.phase = "default" /\ tbl.const_entries # <<>>
    THEN [phase |-> "const", index |-> 1]
    ELSE IF frame.phase = "const" /\ frame.index < Len(tbl.const_entries)
    THEN [phase |-> "const", index |-> frame.index + 1]
    ELSE IF frame.phase \in {"default", "const"} /\ tbl.actions # <<>>
    THEN [phase |-> "action", index |-> Len(tbl.actions)]
    ELSE IF frame.phase = "action" /\ frame.index > 1
    THEN [phase |-> "action", index |-> frame.index - 1]
    ELSE [phase |-> "miss", index |-> 0]

\* the evaluation eval_table and eval start after the one that returned
NextWork(frame) ==
    IF frame.phase = "miss" THEN [phase |-> "return", index |-> 0]
    ELSE IF frame.phase = "default" /\ tbl.const_entries # <<>>
    THEN [phase |-> "const", index |-> Len(tbl.const_entries)]
    ELSE IF frame.phase = "const" /\ frame.index > 1
    THEN [phase |-> "const", index |-> frame.index - 1]
    ELSE IF frame.phase \in {"default", "const"} /\ tbl.actions # <<>>
    THEN [phase |-> "action", index |-> Len(tbl.actions)]
    ELSE IF frame.phase = "action" /\ frame.index > 1
    THEN [phase |-> "action", index |-> frame.index - 1]
    ELSE [phase |-> "miss", index |-> 0]

\* expr of eval_table once the evaluation of the frame has returned ret
Wrapped(frame) ==
    IF frame.phase = "default" THEN ret
    ELSE z3_If(frame.action_match, ret, frame.expr)

\* P4Table.eval: eval_keys, then eval_table up to the step() of the
\* default action on a copy of the state
P4Table_eval ==
    /\ pc = "eval" /\ node.node = "P4Table"
    /\ \E tbl_match \in {eval_keys(Store, cur, tbl)} :
       \E self \in {eval_default_action(tbl)} :
          IF tbl_match.val = Raise
          THEN Fail("P4Table.eval_keys")
          ELSE \E fork \in {fork_action(tbl_match.S, cur, self,
                                self.default_action.action_name,
                                self.default_action.action_args)} :
               IF fork.started.val = Raise
               THEN Fail("P4Table.eval_action")
               ELSE /\ Put(fork.started.S)
                    /\ tbl' = self
                    /\ stack' = Append(stack,
                           [frame |-> "P4Table", p4_state |-> cur,
                            tbl_match |-> tbl_match.val, phase |-> "default",
                            index |-> 0, action_match |-> None,
                            expr |-> Pending, entry |-> Bindings(Store, cur)])
                    /\ cur' = fork.sid
                    /\ pc' = "step" /\ at' = "P4Table.eval_default"
                    /\ UNCHANGED <<node, ret, call, retval, case_match, run, declared>>

\* eval_table: the next constant entry, in reverse order, on a copy
eval_table_const ==
    /\ pc = "return" /\ stack # <<>> /\ Top.frame = "P4Table"
    /\ NextWork(Top).phase = "const"
    /\ \E entry \in {tbl.const_entries[NextWork(Top).index]} :
       \E matches \in {const_matches(Store, Top.p4_state, tbl,
                                     entry.const_keys, 0, <<>>)} :
          IF matches.val = Raise
          THEN Fail("P4Table.eval_table")
          ELSE \E fork \in {fork_action(matches.S, Top.p4_state, tbl,
                                entry.action_name, entry.action_args)} :
               IF fork.started.val = Raise
               THEN Fail("P4Table.eval_action")
               ELSE /\ Put(fork.started.S)
                    /\ stack' = [stack EXCEPT ![Len(stack)] =
                           [@ EXCEPT !.expr = Wrapped(Top), !.phase = "const",
                                     !.index = NextWork(Top).index,
                                     !.action_match = matches.val]]
                    /\ cur' = fork.sid
                    /\ pc' = "step" /\ at' = "P4Table.eval_table.const"
                    /\ UNCHANGED <<node, ret, fixed>>

\* eval_table: the next declared action, in reverse order, on a copy
eval_table_action ==
    /\ pc = "return" /\ stack # <<>> /\ Top.frame = "P4Table"
    /\ NextWork(Top).phase = "action"
    /\ \E action \in {tbl.actions[NextWork(Top).index]} :
       \E fork \in {fork_action(Store, Top.p4_state, tbl,
                        action.action_name, action.action_args)} :
          IF fork.started.val = Raise
          THEN Fail("P4Table.eval_action")
          ELSE /\ Put(fork.started.S)
               /\ stack' = [stack EXCEPT ![Len(stack)] =
                      [@ EXCEPT !.expr = Wrapped(Top), !.phase = "action",
                                !.index = NextWork(Top).index,
                                !.action_match =
                                    z3_Eq(tbl.tbl_action, IntVal(action.index))]]
               /\ cur' = fork.sid
               /\ pc' = "step" /\ at' = "P4Table.eval_table.action"
               /\ UNCHANGED <<node, ret, fixed>>

\* eval_table has returned: eval_default on the state itself
P4Table_eval_default ==
    /\ pc = "return" /\ stack # <<>> /\ Top.frame = "P4Table"
    /\ NextWork(Top).phase = "miss"
    /\ \E started \in {eval_action(Store, Top.p4_state, tbl,
                           tbl.default_action.action_name,
                           tbl.default_action.action_args)} :
          IF started.val = Raise
          THEN Fail("P4Table.eval_action")
          ELSE /\ Put(started.S)
               /\ stack' = [stack EXCEPT ![Len(stack)] =
                      [@ EXCEPT !.expr = Wrapped(Top), !.phase = "miss",
                                !.index = 0]]
               /\ cur' = Top.p4_state
               /\ pc' = "step" /\ at' = "P4Table.eval.default"
               /\ UNCHANGED <<node, ret, fixed>>

\* P4Table.eval returns z3.If(tbl_match, table_expr, def_expr)
P4Table_return ==
    /\ pc = "return" /\ stack # <<>> /\ Top.frame = "P4Table"
    /\ NextWork(Top).phase = "return"
    /\ ret' = z3_If(Top.tbl_match, Top.expr, ret)
    /\ stack' = Pop
    /\ cur' = Top.p4_state
    /\ pc' = "return" /\ at' = "P4Table.return"
    /\ UNCHANGED <<states, structs, call_counter, node, fixed>>

(***************************************************************************)
(* SwitchStatement and SwitchHit.                                          *)
(***************************************************************************)
HasAction(table, action_str) ==
    \E a \in 1..Len(table.actions) : table.actions[a].key = action_str

ActionIndex(table, action_str) ==
    table.actions[CHOOSE a \in 1..Len(table.actions) :
                      table.actions[a].key = action_str].index

\* eval_switch_matches: the loop over the cases from index idx on; a case
\* on an action the table does not have is a KeyError, which leaves the
\* guards written so far
RECURSIVE eval_switch_matches(_, _, _, _)
eval_switch_matches(self, table, idx, stored) ==
    IF idx > Len(self.cases) THEN [raised |-> FALSE, matches |-> stored]
    ELSE IF ~HasAction(table, self.cases[idx].action_str)
    THEN [raised |-> TRUE, matches |-> stored]
    ELSE eval_switch_matches(self, table, idx + 1,
             [stored EXCEPT ![idx] =
                 z3_Eq(Const(self.table_str \o "_action"),
                       IntVal(ActionIndex(table, self.cases[idx].action_str)))])

\* SwitchStatement.eval: the table and the hit expression go to the front
\* of the expr_chain
SwitchStatement_eval ==
    /\ pc = "eval" /\ node.node = "SwitchStatement"
    /\ Put(insert_exprs(Store, cur,
               <<P4TableNode,
                 SwitchHit(node.table_str, node.cases, node.default_case)>>))
    /\ pc' = "step" /\ at' = "SwitchStatement"
    /\ UNCHANGED <<stack, cur, node, ret, fixed>>

\* SwitchHit.eval: eval_switch_matches, then eval_cases up to the eval of
\* the default case on the state itself
SwitchHit_eval ==
    /\ pc = "eval" /\ node.node = "SwitchHit"
    /\ \E guards \in {eval_switch_matches(node, tbl, 1, case_match)} :
          /\ case_match' = guards.matches
          /\ IF guards.raised
             THEN /\ pc' = "error" /\ at' = "SwitchHit.eval_switch_matches"
                  /\ UNCHANGED <<stack, node>>
             ELSE /\ stack' = Append(stack,
                         [frame |-> "SwitchHit", self |-> node, p4_state |-> cur,
                          case_state |-> cur, index |-> Len(node.cases) + 1,
                          expr |-> Pending, entry |-> Bindings(Store, cur)])
                  /\ node' = node.default_case
                  /\ pc' = "eval" /\ at' = "SwitchHit.default"
    /\ UNCHANGED <<states, structs, call_counter, cur, ret, call, retval, tbl,
                   declared, run>>

\* expr of eval_cases once the block of the frame has returned ret
SwitchWrapped(frame) ==
    IF frame.index > Len(frame.self.cases) THEN ret
    ELSE z3_If(case_match[frame.index], ret, frame.expr)

\* eval_cases: the next case, in reverse order, on a copy of the state the
\* block before it was evaluated on
SwitchHit_case ==
    /\ pc = "return" /\ stack # <<>> /\ Top.frame = "SwitchHit"
    /\ Top.index > 1
    /\ \E p4_state \in {deepcopy(Store, Top.case_state)} :
          /\ Put(p4_state.S)
          /\ stack' = [stack EXCEPT ![Len(stack)] =
                 [@ EXCEPT !.expr = SwitchWrapped(Top), !.index = @ - 1,
                           !.case_state = p4_state.sid]]
          /\ cur' = p4_state.sid
    /\ node' = Top.self.cases[Top.index - 1].case_block
    /\ pc' = "eval" /\ at' = "SwitchHit.case"
    /\ UNCHANGED <<ret, fixed>>

\* eval_cases has wrapped the last case: SwitchHit.eval returns
SwitchHit_return ==
    /\ pc = "return" /\ stack # <<>> /\ Top.frame = "SwitchHit"
    /\ Top.index = 1
    /\ ret' = SwitchWrapped(Top)
    /\ stack' = Pop
    /\ cur' = Top.p4_state
    /\ pc' = "return" /\ at' = "SwitchHit.return"
    /\ UNCHANGED <<states, structs, call_counter, node, fixed>>

(***************************************************************************)
(* The table of the program is built before the program is evaluated.      *)
(***************************************************************************)
\* the keys of a table are k, x, k, ... in this order
KeyExprs(position) == {IF position % 2 = 1 THEN Name("k") ELSE Name("x")}

ActionExprs == {Name("A"), Name("B")}

DefaultExprs == {Name("NoAction"), MethodCallExpr("A", <<Lit(9)>>)}

EntryExprs == {MethodCallExpr("A", <<Lit(7)>>)}

ConstKeys == {Lit(5), Name("default")}

ConstKeyTuples == UNION {[1..n -> ConstKeys] : n \in 0..MaxKeys}

Build_add_action ==
    /\ pc = "build" /\ Len(declared) < MaxActions
    /\ \E action_expr \in ActionExprs :
          /\ tbl' = add_action(tbl, action_expr)
          /\ declared' = Append(declared, resolve_action(action_expr).action_name)
    /\ at' = "add_action"
    /\ UNCHANGED <<evalvars, pc, call, retval, case_match, run>>

Build_add_default ==
    /\ pc = "build" /\ tbl.default_action = NoneNode
    /\ \E action_expr \in DefaultExprs : tbl' = add_default(tbl, action_expr)
    /\ at' = "add_default"
    /\ UNCHANGED <<evalvars, pc, call, retval, case_match, run, declared>>

Build_add_match ==
    /\ pc = "build" /\ Len(tbl.keys) < MaxKeys
    /\ \E table_key \in KeyExprs(Len(tbl.keys) + 1) : tbl' = add_match(tbl, table_key)
    /\ at' = "add_match"
    /\ UNCHANGED <<evalvars, pc, call, retval, case_match, run, declared>>

Build_add_const_entry ==
    /\ pc = "build" /\ Len(tbl.const_entries) < MaxEntries
    /\ \E const_keys \in ConstKeyTuples, action_expr \in EntryExprs :
          IF add_const_entry_raises(tbl, const_keys)
          THEN pc' = "error" /\ at' = "add_const_entry.raise" /\ UNCHANGED tbl
          ELSE /\ tbl' = add_const_entry(tbl, const_keys, action_expr)
               /\ pc' = "build" /\ at' = "add_const_entry"
    /\ UNCHANGED <<evalvars, call, retval, case_match, run, declared>>

\* the translation is over: the program is evaluated
Evaluate ==
    /\ pc = "build"
    /\ pc' = "step" /\ at' = "evaluate"
    /\ UNCHANGED <<evalvars, fixed>>

(***************************************************************************)
(* The programs evaluated.                                                 *)
(***************************************************************************)
MaxBlock == 1      \* statements in a branch of a conditional

InitVars ==
    [x |-> Const("x"), y |-> Const("y"), c |-> Const("c"),
     k |-> Const("k"), r |-> Const("r"),
     on |-> BoolVal(TRUE), off |-> BoolVal(FALSE), h |-> StructRef(1),
     v |-> BitVec("v", ByteWidth)]

InitStructs == <<[f |-> Const("h.f")]>>

Writes ==
    {AssignmentStatement(l, r) : l \in {"x", "h.f"}, r \in {Lit(1), Name("y")}}

Blocks == UNION {[1..n -> Writes] : n \in 0..MaxBlock}

Tails == {<<>>, <<AssignmentStatement("y", Name("x"))>>}

InnerIf ==
    IfStatement(Name("on"),
                BlockStatement(<<AssignmentStatement("h.f", Lit(5))>>),
                BlockStatement(<<AssignmentStatement("x", Lit(5))>>))

IfPrograms ==
    {<<IfStatement(Name("c"), BlockStatement(t), e)>> \o tail :
        t \in Blocks \cup {<<InnerIf>>},
        e \in {NoneNode} \cup {BlockStatement(b) : b \in Blocks \cup {<<InnerIf>>}},
        tail \in Tails}

CallArgs(a) ==
    IF Registry[a].params = <<>> THEN {<<>>}
    ELSE {<<Name("x")>>, <<Name("y")>>}
            \cup (IF Registry[a].params[1].is_ref = "in" THEN {<<Lit(5)>>} ELSE {})

Actions == {"NoAction", "set_p", "set_x", "get_p", "io_p", "out_p"}

CallPrograms ==
    UNION {{<<MethodCallStmt(MethodCallExpr(a, args))>> \o tail :
                args \in CallArgs(a), tail \in Tails} : a \in Actions}

Lefts == {Value(BoolVal(FALSE)), Value(BoolVal(TRUE)), Name("off"), Name("on"),
          Name("c")}

Rights == {MethodCallExpr("ext", <<Name("x")>>), Name("c"), Name("undefined")}

LogicPrograms ==
    {<<AssignmentStatement("y", P4land(l, r))>> : l \in Lefts, r \in Rights}
        \cup {<<AssignmentStatement("y", P4lor(l, r))>> : l \in Lefts, r \in Rights}

TablePrograms == {<<P4TableNode, AssignmentStatement("y", Name("x"))>>}

\* calls of the actions on four bits with every slice v[l + 3 : l]
SliceActions == {"out_s", "set_s", "io_s"}

SlicePrograms ==
    {<<MethodCallStmt(MethodCallExpr(a,
           <<P4Slice(Name("v"), slice_r + 3, slice_r)>>))>> :
        a \in SliceActions, slice_r \in 0..(ByteWidth - 4)}

\* programs that read a name no state binds: at the top, in a branch, as
\* the argument of a call
UnboundPrograms ==
    {<<AssignmentStatement("y", Name("undefined"))>>,
     <<IfStatement(Name("c"),
                   BlockStatement(<<AssignmentStatement("x", Name("undefined"))>>),
                   NoneNode),
       AssignmentStatement("y", Name("x"))>>,
     <<MethodCallStmt(MethodCallExpr("get_p", <<Name("undefined")>>))>>}

Programs ==
    IfPrograms \cup CallPrograms \cup LogicPrograms \cup TablePrograms
        \cup UnboundPrograms \cup SlicePrograms

Init ==
    /\ \E prog \in Programs :
          /\ states = <<[vars |-> InitVars, expr_chain |-> prog]>>
          /\ pc = IF prog \in TablePrograms THEN "build" ELSE "step"
          /\ run = [graph |-> prog, first |-> Pending]
    /\ tbl = P4Table("t")
    /\ declared = <<>>
    /\ structs = InitStructs
    /\ stack = <<>>
    /\ call_counter = [p4_method \in DOMAIN Registry |-> 0]
    /\ case_match = <<>>
    /\ cur = 1
    /\ node = NoneNode
    /\ at = "init"
    /\ ret = Pending
    /\ call = [fn |-> "none"]
    /\ retval = Pending

Next ==
    \/ step_next
    \/ step_return
    \/ Finish
    \/ AssignmentStatement_eval
    \/ BlockStatement_eval
    \/ IfStatement_eval
    \/ IfStatement_else
    \/ z3_implies
    \/ IfStatement_return
    \/ MethodCallStmt_eval
    \/ MethodCallStmt_return
    \/ P4Context_eval
    \/ P4Table_eval
    \/ eval_table_const
    \/ eval_table_action
    \/ P4Table_eval_default
    \/ P4Table_return
    \/ Build_add_action
    \/ Build_add_default
    \/ Build_add_match
    \/ Build_add_const_entry
    \/ Evaluate

Spec == Init /\ [][Next]_vars

(***************************************************************************)
(* A node graph evaluated twice: the nodes keep what the first evaluation  *)
(* stored on them (call counters, the default action of the table, the     *)
(* guards of the cases); the state of the second evaluation is fresh.      *)
(***************************************************************************)
BuiltTables ==
    LET t1 == add_action(P4Table("t"), Name("A"))
        t2 == add_match(t1, Name("k"))
        t3 == add_const_entry(t2, <<Lit(5)>>, MethodCallExpr("A", <<Lit(7)>>))
        t4 == add_action(t3, Name("B"))
    IN  {P4Table("t"), t1, t2, t3, t4,
         add_default(t3, MethodCallExpr("A", <<Lit(9)>>))}

SwitchCases ==
    {<<>>,
     <<Case("A", <<AssignmentStatement("x", Lit(1))>>)>>,
     <<Case("A", <<AssignmentStatement("x", Lit(1))>>),
       Case("B", <<AssignmentStatement("h.f", Name("x"))>>)>>}

SwitchDefaults == {<<>>, <<AssignmentStatement("y", Lit(1))>>}

SwitchPrograms ==
    {<<SwitchStatement("t", cases, default_exprs)>> \o tail :
        cases \in SwitchCases, default_exprs \in SwitchDefaults, tail \in Tails}

\* tables with one or two keys and two constant entries, the first giving
\* A(7) and the second A(8), without and with a declared action
EntryLiterals == {Lit(5), Lit(6), Name("default")}

KeyedTables ==
    LET k1 == add_match(P4Table("t"), Name("k"))
        k2 == add_match(k1, Name("x"))
    IN  {k1, k2, add_action(k1, Name("A")), add_action(k2, Name("A"))}

EntryTables ==
    UNION {{add_const_entry(
                add_const_entry(table, first, MethodCallExpr("A", <<Lit(7)>>)),
                second, MethodCallExpr("A", <<Lit(8)>>)) :
              first \in [1..Len(table.keys) -> EntryLiterals],
              second \in [1..Len(table.keys) -> EntryLiterals]} :
           table \in KeyedTables}

\* the tables a node graph is evaluated with
TablesOf(prog) ==
    IF prog \in TablePrograms THEN BuiltTables \cup EntryTables
    ELSE IF prog \in SwitchPrograms THEN BuiltTables
    ELSE {P4Table("t")}

FreshState(prog) == [vars |-> InitVars, expr_chain |-> prog]

InitTwice ==
    /\ \E prog \in CallPrograms \cup LogicPrograms \cup TablePrograms
                      \cup SwitchPrograms :
          /\ states = <<FreshState(prog)>>
          /\ run = [graph |-> prog, first |-> Pending]
          /\ case_match = IF prog \in SwitchPrograms
                       THEN [i \in 1..Len(prog[1].cases) |-> None]
                       ELSE <<>>
          /\ \E table \in TablesOf(prog) :
                /\ tbl = table
                /\ declared = [a \in 1..Len(table.actions) |->
                                  table.actions[a].key]
    /\ structs = InitStructs
    /\ stack = <<>>
    /\ call_counter = [p4_method \in DOMAIN Registry |-> 0]
    /\ cur = 1
    /\ node = NoneNode
    /\ pc = "step"
    /\ at = "init"
    /\ ret = Pending
    /\ call = [fn |-> "none"]
    /\ retval = Pending

\* the node graph is evaluated once more, on a fresh state
Rerun ==
    /\ pc = "done" /\ run.first = Pending
    /\ run' = [run EXCEPT !.first = ret]
    /\ states' = <<FreshState(run.graph)>>
    /\ structs' = InitStructs
    /\ stack' = <<>>
    /\ cur' = 1
    /\ node' = NoneNode
    /\ ret' = Pending
    /\ pc' = "step" /\ at' = "rerun"
    /\ UNCHANGED <<call_counter, case_match, tbl, declared, call, retval>>

NextTwice ==
    \/ step_next
    \/ step_return
    \/ Finish
    \/ AssignmentStatement_eval
    \/ BlockStatement_eval
    \/ MethodCallStmt_eval
    \/ MethodCallStmt_return
    \/ P4Context_eval
    \/ P4Table_eval
    \/ eval_table_const
    \/ eval_table_action
    \/ P4Table_eval_default
    \/ P4Table_return
    \/ SwitchStatement_eval
    \/ SwitchHit_eval
    \/ SwitchHit_case
    \/ SwitchHit_return
    \/ Rerun

SpecTwice == InitTwice /\ [][NextTwice]_vars

(***************************************************************************)
(* Statement sequences: blocks, conditionals and switches followed by      *)
(* statements, early exits and returns, declarations, calls of functions   *)
(* and externs.  Tables are built beforehand.                              *)
(***************************************************************************)
Stmts ==
    {AssignmentStatement("x", Lit(1)), AssignmentStatement("y", Name("x")),
     AssignmentStatement("x", Name("y"))}

StmtSeqs(n) == UNION {[1..m -> Stmts] : m \in 0..n}

\* the statements R behind the node a program starts with
Rests == {<<>>, <<AssignmentStatement("y", Name("x"))>>,
          <<AssignmentStatement("y", Name("x")), AssignmentStatement("x", Lit(5))>>}

BlockPrograms ==
    {<<BlockStatement(b)>> \o rest : b \in StmtSeqs(MaxBlock + 1), rest \in Rests}
        \cup {<<BlockStatement(<<BlockStatement(b)>> \o c)>> \o rest :
                  b \in StmtSeqs(1), c \in StmtSeqs(1), rest \in Rests}

ExitActions == {"exit_io", "exit_out", "call_exit"}

\* an exit or a return at the top, in a block, in a branch, in an action
Leaves ==
    {P4Exit, P4Return(NoneNode), P4Return(Name("x")),
     P4Return(P4land(Name("c"), Name("on")))}

LeavePrograms ==
    UNION {{b \o <<leave>> \o rest,
            <<BlockStatement(b \o <<leave>> \o b)>> \o rest,
            <<IfStatement(Name("c"), BlockStatement(b \o <<leave>>), NoneNode)>>
                \o rest,
            <<IfStatement(Name("c"), BlockStatement(b),
                          BlockStatement(<<leave>> \o b))>> \o rest} :
           b \in StmtSeqs(1), leave \in Leaves, rest \in Rests}
        \cup {<<MethodCallStmt(MethodCallExpr(a, <<>>))>> \o rest :
                  a \in {"ret_a", "exit_a"}, rest \in Rests}
        \cup {<<MethodCallStmt(MethodCallExpr(a, <<Name(target)>>))>> \o rest :
                  a \in ExitActions, target \in {"x", "h.f"}, rest \in Rests}

\* a name is declared or assigned, the variable its right side reads is
\* written, the name is read
Stored ==
    {P4Slice(Name("v"), 3, 0), P4land(Name("c"), Name("on")), Lit(5), Name("x")}

Overwrites ==
    {<<>>, <<AssignmentStatement("v", Lit(255))>>,
     <<AssignmentStatement("c", Value(BoolVal(FALSE)))>>,
     <<AssignmentStatement("x", Lit(1))>>}

DeclPrograms ==
    UNION {{<<P4Declaration("d", rval)>> \o w
                \o <<AssignmentStatement("y", Name("d"))>>,
            <<AssignmentStatement("d", rval)>> \o w
                \o <<AssignmentStatement("y", Name("d"))>>} :
           rval \in Stored, w \in Overwrites}

Functions == {"f_id", "f_set", "f_run"}

FunctionPrograms ==
    UNION {{<<AssignmentStatement("y", MethodCallExpr(f, args))>> \o rest :
               args \in CallArgs(f), rest \in Rests} : f \in Functions}

\* two calls of an extern, one after the other
ExternArgs ==
    {<<Value(PyInt(a)), Value(PyInt(b))>> : a \in {1, 12}, b \in {3, 23}}
        \cup {<<Lit(1), Lit(3)>>, <<Name("x"), Name("y")>>}

ExternPrograms ==
    {<<AssignmentStatement("r", MethodCallExpr("ext2", first)),
       AssignmentStatement("k", MethodCallExpr("ext2", second))>> :
        first \in ExternArgs, second \in ExternArgs}
        \cup {<<AssignmentStatement("r", MethodCallExpr("ext", <<first>>)),
                 AssignmentStatement("k", MethodCallExpr("ext", <<second>>))>> :
                  first \in {Name("x"), Name("y")},
                  second \in {Name("x"), Name("y")}}

SwitchRests == Rests \cup {<<AssignmentStatement("x", Name("y"))>>}

SwitchRestPrograms ==
    {<<SwitchStatement("t", cases, default_exprs)>> \o rest :
        cases \in SwitchCases, default_exprs \in SwitchDefaults,
        rest \in SwitchRests}

FlowPrograms ==
    BlockPrograms \cup LeavePrograms \cup DeclPrograms \cup FunctionPrograms
        \cup ExternPrograms \cup IfPrograms \cup SwitchRestPrograms

InitFlow ==
    /\ \E prog \in FlowPrograms :
          /\ states = <<FreshState(prog)>>
          /\ run = [graph |-> prog, first |-> Pending]
          /\ case_match = IF prog \in SwitchRestPrograms
                          THEN [i \in 1..Len(prog[1].cases) |-> None]
                          ELSE <<>>
          /\ \E table \in (IF prog \in SwitchRestPrograms THEN BuiltTables
                            ELSE {P4Table("t")}) :
                /\ tbl = table
                /\ declared = [a \in 1..Len(table.actions) |->
                                  table.actions[a].key]
    /\ structs = InitStructs
    /\ stack = <<>>
    /\ call_counter = [p4_method \in DOMAIN Registry |-> 0]
    /\ cur = 1
    /\ node = NoneNode
    /\ pc = "step"
    /\ at = "init"
    /\ ret = Pending
    /\ call = [fn |-> "none"]
    /\ retval = Pending

NextFlow ==
    \/ step_next
    \/ step_return
    \/ Finish
    \/ AssignmentStatement_eval
    \/ P4Declaration_eval
    \/ BlockStatement_eval
    \/ IfStatement_eval
    \/ IfStatement_else
    \/ z3_implies
    \/ IfStatement_return
    \/ P4Exit_eval
    \/ P4Return_eval
    \/ MethodCallStmt_eval
    \/ MethodCallStmt_return
    \/ P4Context_eval
    \/ P4Table_eval
    \/ eval_table_const
    \/ eval_table_action
    \/ P4Table_eval_default
    \/ P4Table_return
    \/ SwitchStatement_eval
    \/ SwitchHit_eval
    \/ SwitchHit_case
    \/ SwitchHit_return

SpecFlow == InitFlow /\ [][NextFlow]_vars

\* the interpreter runs on until the call of step() at the top returns or
\* raises
SpecFlowFair ==
    SpecFlow /\ ([]<>(pc \in {"done", "error"}) \/ []<><<NextFlow>>_vars)

(***************************************************************************)
(* merge_parameters on its own: callables of 0..MaxParams parameters,      *)
(* called with positional and named arguments.                             *)
(***************************************************************************)
MaxParams == 2     \* parameters of a callable

ParamNames == <<"a", "b", "c", "d">>
Directions == <<"in", "out", "inout">>

Callable(n) ==
    P4Action([i \in 1..n |->
                 Param(Directions[((i - 1) % Len(Directions)) + 1], ParamNames[i])],
             <<>>)

ArgVals == {Name("x"), Name("y")}

\* one argument more than the callable with the most parameters takes
Positional == UNION {[1..n -> ArgVals] : n \in 0..(MaxParams + 1)}

\* named arguments, each name once, also a name no callable declares
ArgNames == {ParamNames[i] : i \in 1..MaxParams} \cup {"undeclared"}

Named ==
    {kwargs \in UNION {[1..n -> [arg_name : ArgNames, arg_val : ArgVals]] :
                          n \in 0..MaxParams} :
        \A i, j \in DOMAIN kwargs :
            kwargs[i].arg_name = kwargs[j].arg_name => i = j}

MergeCalls ==
    {[fn |-> "merge_parameters", self |-> Callable(n), args |-> args,
      kwargs |-> kwargs] :
        n \in 0..MaxParams, args \in Positional, kwargs \in Named}

InitCalls ==
    /\ call \in MergeCalls
    /\ retval = Pending
    /\ states = <<>> /\ structs = <<>> /\ stack = <<>>
    /\ cur = 0 /\ node = NoneNode /\ pc = "call" /\ at = "" /\ ret = Pending
    /\ tbl = P4Table("") /\ declared = <<>>
    /\ call_counter = <<>> /\ case_match = <<>>
    /\ run = [graph |-> <<>>, first |-> Pending]

Apply_merge_parameters ==
    /\ call.fn = "merge_parameters"
    /\ retval = Pending
    /\ retval' = merge_kwargs(call.self,
                     merge_parameters(call.self, call.args), call.kwargs, 1)
    /\ UNCHANGED <<call, enginevars>>

NextCalls == Apply_merge_parameters

SpecCalls == InitCalls /\ [][NextCalls]_vars


(***************************************************************************)
(* resolve_expr on its own: lists and dicts of 0..MaxList expressions and  *)
(* names bound to complex values; a complex value that was returned is     *)
(* then written through.                                                   *)
(***************************************************************************)
MaxList == 2       \* elements of a list or dict

ResolveVars == [n \in {"e"} |-> EnumRef(2)] @@ InitVars

ResolveStructs == <<[f |-> Const("h.f")], [f |-> Const("e.f")]>>

ResolveStore ==
    [states |-> <<[vars |-> ResolveVars, expr_chain |-> <<>>]>>,
     structs |-> ResolveStructs,
     call_counter |-> [p4_method \in DOMAIN Registry |-> 0]]

Elems ==
    {Name("x"), Lit(5), P4Slice(Name("v"), 3, 0), Name("h"),
     Name("undefined")}

ElemSeqs == UNION {[1..n -> Elems] : n \in 0..MaxList}

DictKeys == <<"a", "b", "c", "d">>

ComplexNames == {Name("h"), Name("e")}

ResolveExprs ==
    {Value(PyList(items)) : items \in ElemSeqs}
        \cup {Value(PyDict(SubSeq(DictKeys, 1, Len(items)), items)) :
                 items \in ElemSeqs}
        \cup {Value(PyList(<<Value(PyList(items))>>)) : items \in ElemSeqs}
        \cup ComplexNames \cup {Name("x"), Name("undefined")}

InitResolve ==
    /\ call \in {[fn |-> "resolve_expr", expr |-> expr] : expr \in ResolveExprs}
    /\ retval = Pending
    /\ states = ResolveStore.states
    /\ structs = ResolveStore.structs
    /\ call_counter = ResolveStore.call_counter
    /\ stack = <<>> /\ cur = 1 /\ node = NoneNode
    /\ pc = "call" /\ at = "init" /\ ret = Pending
    /\ tbl = P4Table("") /\ declared = <<>> /\ case_match = <<>>
    /\ run = [graph |-> <<>>, first |-> Pending]

\* val = resolve_expr(p4_state, expr); the value of an earlier call is kept
Apply_resolve_expr ==
    /\ pc = "call" /\ call.fn = "resolve_expr"
    /\ at \in {"init", "resolved"}
    /\ at = "resolved" => /\ ret = Pending
                          /\ retval # Raise /\ retval.sort \in {"Struct", "Enum"}
    /\ \E r \in {resolve_expr(Store, cur, call.expr)} :
          /\ Put(r.S)
          /\ retval' = r.val
    /\ ret' = retval
    /\ at' = "resolved"
    /\ UNCHANGED <<stack, cur, node, pc, tbl, declared, case_match, run, call>>

\* val.f = 1 through the reference resolve_expr returned last
Write_member ==
    /\ pc = "call" /\ at = "resolved"
    /\ retval # Raise /\ retval.sort \in {"Struct", "Enum"}
    /\ structs' = [structs EXCEPT ![retval.ref].f = BitVecVal(1, ByteWidth)]
    /\ at' = "written"
    /\ UNCHANGED <<states, call_counter, stack, cur, node, pc, ret, retval,
                   tbl, declared, case_match, run, call>>

NextResolve == Apply_resolve_expr \/ Write_member

SpecResolve == InitResolve /\ [][NextResolve]_vars

(***************************************************************************)
(* Slice assignments on their own: targets of 0..MaxNest slices of a v of  *)
(* SliceWidth bits, nested in one another, and a slice [l:r] of the        *)
(* innermost.                                                              *)
(***************************************************************************)
MaxNest == 2       \* slices in the target of a slice assignment

\* v is three bits narrower than a byte here
SliceWidth == ByteWidth - 3

SliceVars == [InitVars EXCEPT !.v = BitVec("v", SliceWidth)]

\* the slices [l:r] of a value of w bits
SlicesIn(w) == {s \in (0..(w - 1)) \X (0..(w - 1)) : s[1] >= s[2]}

RECURSIVE TargetWidth(_)
TargetWidth(lval) ==
    IF lval.node = "P4Slice" THEN lval.slice_l + 1 - lval.slice_r
    ELSE SliceWidth

RECURSIVE Targets(_)
Targets(n) ==
    IF n = 0 THEN {Name("v")}
    ELSE UNION {{P4Slice(t, s[1], s[2]) : s \in SlicesIn(TargetWidth(t))} :
                   t \in Targets(n - 1)}

SliceAssignPrograms ==
    UNION {UNION {{<<SliceAssignment(t, Value(BitVec("s", s[1] + 1 - s[2])),
                                     s[1], s[2])>> :
                      s \in SlicesIn(TargetWidth(t))} :
                  t \in Targets(n)} : n \in 0..MaxNest}

InitSlices ==
    /\ \E prog \in SliceAssignPrograms :
          /\ states = <<[vars |-> SliceVars, expr_chain |-> prog]>>
          /\ run = [graph |-> prog, first |-> Pending]
    /\ case_match = <<>>
    /\ tbl = P4Table("t") /\ declared = <<>>
    /\ structs = InitStructs
    /\ stack = <<>>
    /\ call_counter = [p4_method \in DOMAIN Registry |-> 0]
    /\ cur = 1
    /\ node = NoneNode
    /\ pc = "step"
    /\ at = "init"
    /\ ret = Pending
    /\ call = [fn |-> "none"]
    /\ retval = Pending

NextSlices == step_next \/ SliceAssignment_eval \/ step_return \/ Finish

SpecSlices == InitSlices /\ [][NextSlices]_vars

(***************************************************************************)
(* Controls applied by a statement, with statements behind the             *)
(* application.                                                            *)
(***************************************************************************)
Controls == {"c_in", "c_out", "c_io", "c_s"}

ControlArgs(c) ==
    IF c = "c_s" THEN {<<P4Slice(Name("v"), slice_r + 3, slice_r)>> :
                          slice_r \in 0..(ByteWidth - 4)}
    ELSE {<<Name("x")>>, <<Name("y")>>, <<Name("h.f")>>}

\* the statements behind the application: they read the target, a
\* parameter name, a local
ControlRests ==
    Rests \cup {<<AssignmentStatement("x", Name("y"))>>,
                <<AssignmentStatement("y", Name("p"))>>,
                <<AssignmentStatement("y", Name("l"))>>,
                <<AssignmentStatement("y", Name("v"))>>}

ControlPrograms ==
    UNION {{<<MethodCallStmt(MethodCallExpr(c, args))>> \o rest :
               args \in ControlArgs(c), rest \in ControlRests} : c \in Controls}

InitControl ==
    /\ \E prog \in ControlPrograms :
          /\ states = <<FreshState(prog)>>
          /\ run = [graph |-> prog, first |-> Pending]
    /\ case_match = <<>>
    /\ tbl = P4Table("t") /\ declared = <<>>
    /\ structs = InitStructs
    /\ stack = <<>>
    /\ call_counter = [p4_method \in DOMAIN Registry |-> 0]
    /\ cur = 1
    /\ node = NoneNode
    /\ pc = "step"
    /\ at = "init"
    /\ ret = Pending
    /\ call = [fn |-> "none"]
    /\ retval = Pending

NextControl ==
    \/ step_next
    \/ step_return
    \/ Finish
    \/ AssignmentStatement_eval
    \/ P4Declaration_eval
    \/ BlockStatement_eval
    \/ P4Control_eval
    \/ P4Context_eval_saved
    \/ MethodCallStmt_return

SpecControl == InitControl /\ [][NextControl]_vars

(***************************************************************************)
(* dissect_conds of check_p4_blackbox.py on the branch conditions of a     *)
(* formula of the engine: tests of the keys of a table, of its action      *)
(* selector, of the input header and of other variables.                   *)
(***************************************************************************)
MaxConds == 2      \* branch conditions in one call of dissect_conds

\* "sub in s" on Python strings
Contains(s, sub) ==
    \E i \in 1..(Len(s) - Len(sub) + 1) : SubSeq(s, i, i + Len(sub) - 1) = sub

\* z3.z3util.get_vars(cond): the names of the constants in a term
RECURSIVE get_vars(_)
get_vars(term) ==
    IF term.sort = "const" THEN {term.name}
    ELSE IF term.sort = "Eq" THEN get_vars(term.lhs) \cup get_vars(term.rhs)
    ELSE IF term.sort \in {"And", "Or"}
    THEN UNION {get_vars(term.args[i]) : i \in DOMAIN term.args}
    ELSE IF term.sort = "If"
    THEN get_vars(term.cond) \cup get_vars(term.then_expr)
            \cup get_vars(term.else_expr)
    ELSE {}

\* the body of the loop over the variables of one condition
has_member(cond) == \E cond_var \in get_vars(cond) : Contains(cond_var, "ingress_0")

has_table_key(cond) ==
    \E cond_var \in get_vars(cond) :
        /\ ~Contains(cond_var, "ingress_0")
        /\ Contains(cond_var, "table_key")

has_table_action(cond) ==
    \E cond_var \in get_vars(cond) :
        /\ ~Contains(cond_var, "ingress_0")
        /\ ~Contains(cond_var, "table_key")
        /\ Contains(cond_var, "action")

undefined_vars_of(cond) ==
    {cond_var \in get_vars(cond) :
        /\ ~Contains(cond_var, "ingress_0")
        /\ ~Contains(cond_var, "table_key")
        /\ ~Contains(cond_var, "action")}

has_undefined_var(cond) == undefined_vars_of(cond) # {}

\* the state in which the keys of the tables are evaluated: hdr is the
\* input header
CondVars == [n \in {"hdr"} |-> Const("ingress_0")] @@ InitVars

CondStore ==
    [states |-> <<[vars |-> CondVars, expr_chain |-> <<>>]>>,
     structs |-> InitStructs,
     call_counter |-> [p4_method \in DOMAIN Registry |-> 0]]

TableNames == {"t", "fwd_table"}

\* tables with 1..MaxKeys keys on the input header, or on a variable
CondTables ==
    UNION {{[P4Table(name) EXCEPT !.keys = [i \in 1..n |-> key]] :
               n \in 1..MaxKeys, key \in {Name("hdr"), Name("x")}} :
           name \in TableNames}

\* the test of the keys of a table and the test of its action selector
KeyConds == {eval_keys(CondStore, 1, self).val : self \in CondTables}

ActionConds == {z3_Eq(P4Table(name).tbl_action, IntVal(1)) : name \in TableNames}

BranchConds ==
    KeyConds \cup ActionConds
        \cup {z3_And(<<eval_keys(CondStore, 1, self).val,
                       z3_Eq(self.tbl_action, IntVal(1))>>) :
                 self \in {t \in CondTables : Len(t.keys) = 1}}
        \cup {z3_Eq(Const("ingress_0"), BitVecVal(1, ByteWidth)),
              z3_Eq(Const("x"), BitVecVal(1, ByteWidth)),
              z3_Eq(Const("ingress_0"), Const("x")),
              BoolVal(TRUE)}

InitConds ==
    /\ \E n \in 1..MaxConds : \E conditions \in [1..n -> BranchConds] :
          call = [fn |-> "dissect_conds", conditions |-> conditions,
                  index |-> 1, controllable_conds |-> <<>>,
                  fixed_conds |-> <<>>, undefined_vars |-> {}]
    /\ retval = Pending
    /\ states = CondStore.states
    /\ structs = CondStore.structs
    /\ call_counter = CondStore.call_counter
    /\ stack = <<>> /\ cur = 1 /\ node = NoneNode
    /\ pc = "call" /\ at = "init" /\ ret = Pending
    /\ tbl = P4Table("") /\ declared = <<>> /\ case_match = <<>>
    /\ run = [graph |-> <<>>, first |-> Pending]

\* one turn of the loop over the conditions
dissect_cond ==
    /\ pc = "call" /\ call.fn = "dissect_conds"
    /\ call.index <= Len(call.conditions)
    /\ LET cond == call.conditions[call.index]
       IN  call' = [call EXCEPT
               !.index = @ + 1,
               !.undefined_vars = @ \cup undefined_vars_of(cond),
               !.controllable_conds =
                   IF has_member(cond)
                      /\ ~(has_table_key(cond) \/ has_table_action(cond)
                              \/ has_undefined_var(cond))
                   THEN Append(@, cond) ELSE @,
               !.fixed_conds =
                   IF has_member(cond)
                      /\ ~(has_table_key(cond) \/ has_table_action(cond)
                              \/ has_undefined_var(cond))
                   THEN @
                   ELSE IF has_undefined_var(cond)
                           /\ ~(has_table_key(cond) \/ has_table_action(cond)
                                   \/ has_member(cond))
                   THEN @
                   ELSE Append(@, cond)]
    /\ at' = "dissect_conds.cond"
    /\ UNCHANGED <<states, structs, call_counter, stack, cur, node, pc, ret,
                   retval, tbl, declared, case_match, run>>

\* the loop over the undefined variables, and the return
dissect_conds_return ==
    /\ pc = "call" /\ call.fn = "dissect_conds"
    /\ call.index > Len(call.conditions)
    /\ retval' = [controllable_conds |-> call.controllable_conds,
                  fixed_conds |-> call.fixed_conds,
                  undefined_conds |->
                      {z3_Eq(Const(var), IntVal(0)) : var \in call.undefined_vars}]
    /\ pc' = "done" /\ at' = "dissect_conds.return"
    /\ UNCHANGED <<states, structs, call_counter, stack, cur, node, ret,
                   tbl, declared, case_match, run, call>>

NextConds == dissect_cond \/ dissect_conds_return

SpecConds == InitConds /\ [][NextConds]_vars

(***************************************************************************)
(* check_random_progs.py: validate_choice and the launches of main.        *)
(***************************************************************************)
MaxIters == 2      \* args.iterations

EXIT_SUCCESS == [sort |-> "exit", code |-> "EXIT_SUCCESS"]

EXIT_FAILURE == [sort |-> "exit", code |-> "EXIT_FAILURE"]

SUPPORT_MATRIX ==
    [psa |-> [random |-> TRUE, validation |-> TRUE, blackbox |-> TRUE,
              compiler |-> "PSA_BIN"],
     tna |-> [random |-> TRUE, validation |-> FALSE, blackbox |-> TRUE,
              compiler |-> "TNA_BIN"],
     top |-> [random |-> TRUE, validation |-> TRUE, blackbox |-> FALSE,
              compiler |-> "P4TEST_BIN"],
     v1model |-> [random |-> TRUE, validation |-> TRUE, blackbox |-> TRUE,
                  compiler |-> "SS_BIN"]]

\* config = {}
EmptyConfig == [n \in {} |-> FALSE]

\* validate_choice without the test of the blackbox support of the target
validate_choice_any(args) ==
    IF args.arch \notin DOMAIN SUPPORT_MATRIX
    THEN [result |-> EXIT_FAILURE, config |-> EmptyConfig]
    ELSE LET arch_config == SUPPORT_MATRIX[args.arch]
         IN  IF args.do_validate /\ args.use_blackbox
             THEN [result |-> EXIT_FAILURE, config |-> EmptyConfig]
             ELSE IF ~arch_config.random
             THEN [result |-> EXIT_FAILURE, config |-> EmptyConfig]
             ELSE IF ~arch_config.validation /\ args.do_validate
             THEN [result |-> EXIT_FAILURE, config |-> EmptyConfig]
             ELSE [result |-> EXIT_SUCCESS,
                   config |->
                       [arch |-> args.arch,
                        do_validate |-> args.do_validate,
                        use_blackbox |-> args.use_blackbox,
                        randomize_input |-> args.randomize_input,
                        compiler_bin |-> SUPPORT_MATRIX[args.arch].compiler]]

validate_choice(args) ==
    IF args.arch \notin DOMAIN SUPPORT_MATRIX
    THEN [result |-> EXIT_FAILURE, config |-> EmptyConfig]
    ELSE LET arch_config == SUPPORT_MATRIX[args.arch]
         IN  IF args.do_validate /\ args.use_blackbox
             THEN [result |-> EXIT_FAILURE, config |-> EmptyConfig]
             ELSE IF ~arch_config.random
             THEN [result |-> EXIT_FAILURE, config |-> EmptyConfig]
             ELSE IF ~arch_config.validation /\ args.do_validate
             THEN [result |-> EXIT_FAILURE, config |-> EmptyConfig]
             ELSE IF ~arch_config.blackbox /\ args.use_blackbox
             THEN [result |-> EXIT_FAILURE, config |-> EmptyConfig]
             ELSE [result |-> EXIT_SUCCESS,
                   config |->
                       [arch |-> args.arch,
                        do_validate |-> args.do_validate,
                        use_blackbox |-> args.use_blackbox,
                        randomize_input |-> args.randomize_input,
                        compiler_bin |-> SUPPORT_MATRIX[args.arch].compiler]]

\* the architectures of the command line: the supported ones and two others
Archs == DOMAIN SUPPORT_MATRIX \cup {"ebpf", ""}

ChoiceArgs ==
    [arch : Archs, do_validate : BOOLEAN, use_blackbox : BOOLEAN,
     randomize_input : BOOLEAN, iterations : 0..MaxIters]

InitChoice ==
    /\ \E args \in ChoiceArgs :
          call = [fn |-> "main", args |-> args, launched |-> <<>>,
                  returned |-> Pending]
    /\ retval = Pending
    /\ states = <<>> /\ structs = <<>>
    /\ call_counter = [p4_method \in DOMAIN Registry |-> 0]
    /\ stack = <<>> /\ cur = 1 /\ node = NoneNode
    /\ pc = "call" /\ at = "init" /\ ret = Pending
    /\ tbl = P4Table("") /\ declared = <<>> /\ case_match = <<>>
    /\ run = [graph |-> <<>>, first |-> Pending]

\* main: result, config = validate_choice(args), and the return on failure
main_validate_choice ==
    /\ pc = "call" /\ call.fn = "main" /\ at = "init"
    /\ retval' = validate_choice(call.args)
    /\ IF retval'.result # EXIT_SUCCESS
       THEN /\ call' = [call EXCEPT !.returned = retval'.result]
            /\ pc' = "done"
       ELSE UNCHANGED <<call, pc>>
    /\ at' = "validate_choice"
    /\ UNCHANGED <<states, structs, call_counter, stack, cur, node, ret,
                   tbl, declared, case_match, run>>

\* launch(idx): the next index of the loop for tna, any index not yet
\* taken by a process of the pool otherwise
launch ==
    /\ pc = "call" /\ call.fn = "main"
    /\ at \in {"validate_choice", "launch"}
    /\ \E idx \in 0..(call.args.iterations - 1) :
          /\ \A i \in DOMAIN call.launched : call.launched[i] # idx
          /\ retval.config.arch = "tna" => idx = Len(call.launched)
          /\ call' = [call EXCEPT !.launched = Append(@, idx)]
    /\ at' = "launch"
    /\ UNCHANGED <<states, structs, call_counter, stack, cur, node, pc, ret,
                   retval, tbl, declared, case_match, run>>

\* every iteration has been launched: main returns
main_return ==
    /\ pc = "call" /\ call.fn = "main"
    /\ at \in {"validate_choice", "launch"}
    /\ Len(call.launched) = call.args.iterations
    /\ call' = [call EXCEPT !.returned = None]
    /\ pc' = "done" /\ at' = "main.return"
    /\ UNCHANGED <<states, structs, call_counter, stack, cur, node, ret,
                   retval, tbl, declared, case_match, run>>

NextChoice == main_validate_choice \/ launch \/ main_return

SpecChoice == InitChoice /\ [][NextChoice]_vars
(***************************************************************************)
(* Properties of the bit layer (checked under SpecBits).                   *)
(***************************************************************************)
Returned == retval # Pending

\* bit i of a bit-vector
Bit(val, i) == val.bits[i + 1]

\* bit i of the container of a slice assignment: an int is taken on 64 bits
CBit(c, i) == IF c.sort = "int" THEN IntBits(c.int, i + 1)[i + 1] ELSE Bit(c, i)

\* bit j of the right-hand side, zero above its width
RBit(r, j) ==
    CASE r.sort = "bv" -> IF j < size(r) THEN Bit(r, j) ELSE 0
      [] r.sort = "int" -> IntBits(r.int, j + 1)[j + 1]
      [] r.sort = "bool" -> IF j = 0 /\ r.b THEN 1 ELSE 0

FullSpan == call.slice_l = WidthOf(call.lval) - 1 /\ call.slice_r = 0

\* C8: z3_cast of a bit-vector v of width w to a width t (an integer or a
\* bit-vector sort) has width exactly t; bit i of the result is bit i of v
\* for i < w and zero for i >= w (truncation for t <= w, zero-extension for
\* t > w, never sign-extension).
C8_CastWidth ==
    (call.fn = "z3_cast" /\ Returned /\ call.val.sort = "bv"
        /\ call.to_type.kind # "BoolSort") =>
        LET t == call.to_type.size
            w == size(call.val)
        IN  /\ retval.sort = "bv"
            /\ size(retval) = t
            /\ \A i \in 0..(t - 1) :
                  Bit(retval, i) = IF i < w THEN Bit(call.val, i) ELSE 0

\* a widening cast of a bit-vector whose top bit is set has returned
C8_Witness ==
    /\ call.fn = "z3_cast" /\ Returned /\ call.val.sort = "bv"
    /\ call.to_type.kind = "BitVecSort"
    /\ call.to_type.size > size(call.val)
    /\ Bit(call.val, size(call.val) - 1) = 1

\* C9 (as claimed): a slice assignment over the full span of c returns r
\* cast to width(c) bits, so a bit-vector of width(c) bits for every r.
C9_FullSpanIsCast ==
    (call.fn = "slice_assign" /\ Returned /\ FullSpan) =>
        /\ retval = z3_cast(call.rval, IntSize(WidthOf(call.lval)))
        /\ retval.sort = "bv"
        /\ size(retval) = WidthOf(call.lval)

\* C10: a slice assignment that does not span the whole container returns
\* width(c) bits; bits [high:low] are the low high-low+1 bits of r (zero
\* above the width of r), every other bit is the bit of c.  The two
\* scenarios: (0x00, 0x1, 3, 0) gives 0x01 and (0xFF, 0x0, 7, 4) gives 0x0F.
C10_SliceAssignBits ==
    (call.fn = "slice_assign" /\ Returned /\ ~FullSpan) =>
        /\ retval.sort = "bv"
        /\ size(retval) = WidthOf(call.lval)
        /\ \A i \in 0..(WidthOf(call.lval) - 1) :
              Bit(retval, i) =
                  IF call.slice_r <= i /\ i <= call.slice_l
                  THEN RBit(call.rval, i - call.slice_r)
                  ELSE CBit(call.lval, i)
        /\ (call.lval = BitVecVal(0, ByteWidth) /\ call.slice_l = 3
              /\ call.slice_r = 0
              /\ call.rval \in {BitVecVal(1, ByteWidth), PyInt(1), BitVecVal(1, 1)})
            => retval = BitVecVal(1, ByteWidth)
        /\ (call.lval = BitVecVal(255, ByteWidth) /\ call.slice_l = 7
              /\ call.slice_r = 4
              /\ call.rval \in {BitVecVal(0, ByteWidth), PyInt(0), BitVecVal(0, 1)})
            => retval = BitVecVal(15, ByteWidth)

\* a right-hand side wider than the slice was written into the middle of
\* an 8-bit container
C10_Witness ==
    /\ call.fn = "slice_assign" /\ Returned /\ ~FullSpan
    /\ call.lval.sort = "bv" /\ size(call.lval) = ByteWidth
    /\ call.slice_l < ByteWidth - 1 /\ call.slice_r > 0
    /\ call.rval.sort = "bv"
    /\ size(call.rval) > call.slice_l + 1 - call.slice_r
    /\ call.rval.bits[size(call.rval)] = 1


(***************************************************************************)
(* Properties of the engine (checked under Spec).                          *)
(***************************************************************************)
\* C1: the then block and the else block of an IfStatement both start from
\* exactly the bindings the state had when the branches forked: no write of
\* the then block (to a variable or to a member of a struct) is visible to
\* the else block, and none of the else block to the then block.
C1_BranchIsolation ==
    at \in {"IfStatement.then", "IfStatement.else"} =>
        Bindings(Store, cur) = Top.entry

\* the else block is about to start after the then block has written a
\* member of the struct h
C1_Witness ==
    /\ at = "IfStatement.else"
    /\ Bindings(Store, Top.then_p4_state).h # Top.entry.h

\* C2: once the body of a called action and its Context have been evaluated,
\* every caller variable passed for an `in` parameter has the value it had
\* before the call, also when the parameter has the name of the variable.
C2_InParamRestored ==
    (at = "P4Context" /\ Top.frame = "MethodCallStmt") =>
        \A idx \in 1..Len(node.var_buffer) :
            (node.var_buffer[idx].is_ref = "in"
                /\ node.var_buffer[idx].arg.node = "str") =>
                resolve_reference(Store, cur, node.var_buffer[idx].arg.str)
                    = Top.entry[node.var_buffer[idx].arg.str]

(***************************************************************************)
(* The formula a table returns, read under an assignment of its constants. *)
(***************************************************************************)
KeyValues == {BitVecVal(5, ByteWidth), BitVecVal(6, ByteWidth)}

KeyConsts == {"t_key_" \o ToString(i) : i \in 0..(MaxKeys - 1)}

Envs ==
    {[bv |-> b, sel |-> s] :
        b \in [{"k", "x"} \cup KeyConsts -> KeyValues], s \in 0..(MaxActions + 1)}

ValueOf(v, env) ==
    IF v.sort # "const" THEN v
    ELSE IF v.name = "t_action" THEN IntVal(env.sel)
    ELSE env.bv[v.name]

Holds(c, env) ==
    CASE c.sort = "bool" -> c.b
      [] c.sort = "Eq" -> ValueOf(c.lhs, env) = ValueOf(c.rhs, env)
      [] c.sort = "And" ->
            \A i \in 1..Len(c.args) :
                ValueOf(c.args[i].lhs, env) = ValueOf(c.args[i].rhs, env)

\* the leaf of nested z3.If that the assignment selects
RECURSIVE Sem(_, _)
Sem(term, env) ==
    IF term.sort = "If"
    THEN IF Holds(term.cond, env) THEN Sem(term.then_expr, env)
         ELSE Sem(term.else_expr, env)
    ELSE term

\* what an action of the table leaves in r: the argument the entry gives,
\* else the constant named after the table and the parameter
EffectOn_r(action_name, given) ==
    IF action_name = "NoAction" THEN Const("r")
    ELSE IF given = <<>>
    THEN Const("t" \o Registry[action_name].params[1].name)
    ELSE given[1].val

\* the keys equal the match constants (never, for a table without keys)
KeysMatch(env) ==
    /\ tbl.keys # <<>>
    /\ \A i \in 1..Len(tbl.keys) :
        env.bv[tbl.keys[i].str] = env.bv["t_key_" \o ToString(i - 1)]

Matching(env) ==
    {e \in 1..Len(tbl.const_entries) :
        \A i \in 1..Len(tbl.keys) :
            \/ tbl.const_entries[e].const_keys[i] = Name("default")
            \/ env.bv[tbl.keys[i].str] = tbl.const_entries[e].const_keys[i].val}

Selected(env) == {a \in 1..Len(tbl.actions) : tbl.actions[a].index = env.sel}

First(S) == CHOOSE i \in S : \A j \in S : i <= j

Default_r == EffectOn_r(tbl.default_action.action_name, tbl.default_action.action_args)

Entry_r(e) ==
    EffectOn_r(tbl.const_entries[e].action_name, tbl.const_entries[e].action_args)

Action_r(a) == EffectOn_r(tbl.actions[a].action_name, tbl.actions[a].action_args)

TableReturned == at = "P4Table.return"

\* C3 as stated: inside the key-match branch a matching constant entry wins
\* whatever the selector; only when none matches does the selector choose a
\* declared action; otherwise, and on a key miss, the default action.
C3_ConstEntriesFirst ==
    TableReturned =>
        \A env \in Envs :
            Sem(ret, env).vars.r =
                IF ~KeysMatch(env) THEN Default_r
                ELSE IF Matching(env) # {} THEN Entry_r(First(Matching(env)))
                ELSE IF Selected(env) # {} THEN Action_r(First(Selected(env)))
                ELSE Default_r

\* C3 amended: inside the key-match branch the selector is tested first: a
\* selector equal to the id of a declared action gives the effect of the
\* first such action whatever the constant entries; only otherwise the first
\* matching constant entry decides; otherwise, and on a key miss, the
\* default action.
C3_SelectorFirst ==
    TableReturned =>
        \A env \in Envs :
            Sem(ret, env).vars.r =
                IF ~KeysMatch(env) THEN Default_r
                ELSE IF Selected(env) # {} THEN Action_r(First(Selected(env)))
                ELSE IF Matching(env) # {} THEN Entry_r(First(Matching(env)))
                ELSE Default_r

\* a table with a key, a constant entry on a literal and a declared action
\* has returned its formula
C3_Witness ==
    /\ TableReturned
    /\ tbl.keys # <<>> /\ tbl.actions # <<>>
    /\ \E e \in 1..Len(tbl.const_entries) :
          tbl.const_entries[e].const_keys[1] # Name("default")

\* C4: a table without keys has the match predicate false, and its formula
\* gives the effect of the default action under every value of the selector
\* and of the other constants, whatever actions are declared.
C4_NoKeysDefault ==
    (TableReturned /\ tbl.keys = <<>>) =>
        /\ ret.cond = BoolVal(FALSE)
        /\ \A env \in Envs : Sem(ret, env).vars.r = Default_r

\* a table without keys and with a declared action has returned its formula
C4_Witness == TableReturned /\ tbl.keys = <<>> /\ tbl.actions # <<>>

\* C5: the declared actions carry the ids 1..N in declaration order, none
\* repeated or skipped, also when a name is added twice; the default action
\* has id 0, declared or synthesized at evaluation.
C5_ActionIds ==
    /\ \A i \in 1..Len(tbl.actions) : tbl.actions[i].index = i
    /\ tbl.default_action # NoneNode => tbl.default_action.index = 0
    /\ TableReturned =>
          tbl.default_action # NoneNode /\ tbl.default_action.index = 0

\* C6: whatever the order of add_match and add_const_entry, every stored
\* constant entry has as many key values as the table has keys, and an
\* add_const_entry that raises stores nothing.
C6_EntryLength ==
    \A e \in 1..Len(tbl.const_entries) :
        Len(tbl.const_entries[e].const_keys) = Len(tbl.keys)

\* the operand that decides a P4land / P4lor alone
LeftOperand == resolve_expr(Store, cur, node.rval.lval)

Decided ==
    /\ pc = "eval" /\ node.node = "AssignmentStatement"
    /\ node.rval.node \in {"P4land", "P4lor"}
    /\ LeftOperand.val # Raise
    /\ PyEq(LeftOperand.val, node.rval.node = "P4lor")

\* C7: a P4land whose left operand resolves to the constant false yields the
\* constant false, a P4lor whose left operand resolves to the constant true
\* yields the constant true, and the state is the one the left operand left:
\* the right operand is not resolved, so it can neither raise nor write.
C7_ShortCircuit ==
    [][Decided =>
        /\ pc' = "step"
        /\ [states |-> states', structs |-> structs',
            call_counter |-> call_counter'] =
              set_or_add_var(LeftOperand.S, cur, node.lval.str,
                             BoolVal(node.rval.node = "P4lor"))]_vars

\* y := off && ext(x) has been evaluated: y is false and x is untouched
C7_Witness ==
    /\ at = "AssignmentStatement"
    /\ node.rval.node = "P4land"
    /\ node.rval.lval = Name("off")
    /\ node.rval.rval = MethodCallExpr("ext", <<Name("x")>>)
    /\ states[cur].vars.y = BoolVal(FALSE)
    /\ states[cur].vars.x = Const("x")

(***************************************************************************)
(* The boolean round trip of z3_cast (checked under SpecBits).             *)
(***************************************************************************)
\* C11: z3_cast of a boolean b to a width n is the n-bit value 1 for true
\* and 0 for false, and z3_cast of that result to the boolean sort is b
\* again (for n = 8 and true: 0x01, and back true).
C11_BoolRoundTrip ==
    /\ (call.fn = "z3_cast" /\ Returned /\ call.val.sort = "bool"
            /\ call.to_type.kind # "BoolSort") =>
           retval = BitVecVal(IF call.val.b THEN 1 ELSE 0, call.to_type.size)
    /\ (call.fn = "cast_back" /\ call.from.sort = "bool") =>
           retval = call.from

(***************************************************************************)
(* Two evaluations of one node graph (checked under SpecTwice).            *)
(***************************************************************************)
\* C12: the second evaluation of a node graph, from an equal fresh state,
\* returns the formula the first evaluation returned, whatever the first
\* one left on the nodes (call counters, a synthesized default action, the
\* guards stored on the cases of a switch).
C12_SameFormula ==
    (pc = "done" /\ run.first # Pending) => ret = run.first

\* a switch with cases on a table without a declared default action has
\* been evaluated twice: the default action was synthesized by the first
\* evaluation, the guards are stored and the actions were called in both
C12_Witness ==
    /\ pc = "done" /\ run.first # Pending
    /\ run.graph[1].node = "SwitchStatement" /\ run.graph[1].cases # <<>>
    /\ case_match # <<>> /\ \A i \in DOMAIN case_match : case_match[i] # None
    /\ tbl.default_action # NoneNode
    /\ tbl.default_action.action_name = "NoAction"
    /\ call_counter["A"] >= 2

(***************************************************************************)
(* References without a binding.                                           *)
(***************************************************************************)
RefNames == {"undefined", "p", "a", "b", "e", "x", "y", "h.f", "h.g", "u.f"}

Unbound(sid) ==
    {name \in RefNames : resolve_reference(Store, sid, name) = None}

\* the names the node under evaluation hands to resolve_expr first
FirstRefs ==
    IF pc # "eval" THEN {}
    ELSE IF node.node = "AssignmentStatement" /\ node.rval.node = "str"
    THEN {node.rval.str}
    ELSE IF node.node = "MethodCallStmt" /\ node.method_expr.args # <<>>
            /\ node.method_expr.args[1].node = "str"
    THEN {node.method_expr.args[1].str}
    ELSE {}

\* C13: wherever a node is evaluated, resolve_expr on a name without a
\* binding in the current state raises and leaves the state as it was; a
\* node that resolves such a name ends the evaluation in an error with
\* every state as it was, and nothing runs after the error, so that the
\* evaluation never returns a formula.
C13_UnboundFails ==
    [][/\ pc # "error"
       /\ pc = "eval" =>
             \A name \in Unbound(cur) :
                 resolve_expr(Store, cur, Name(name)) = Result(Raise, Store)
       /\ (\E name \in FirstRefs : name \in Unbound(cur)) =>
             /\ pc' = "error" /\ ret' = ret
             /\ states' = states /\ structs' = structs]_vars

\* the evaluation of a branch of an if statement has read an unbound name
C13_Witness ==
    /\ pc = "error" /\ stack # <<>>
    /\ node.node = "AssignmentStatement" /\ node.rval = Name("undefined")
    /\ "undefined" \in Unbound(cur)

(***************************************************************************)
(* The formula of eval_table: the then branch of the formula of the table. *)
(***************************************************************************)
RECURSIVE ElseAt(_, _)
ElseAt(term, n) == IF n = 0 THEN term ELSE ElseAt(term.else_expr, n - 1)

\* C14: the formula eval_table builds tests the declared actions outermost,
\* the first declared one first: its n outermost conditions are the
\* selector tests of the n declared actions in declaration order; under a
\* selector equal to the id of a declared action the result is the effect
\* of that action (the first declared one with the id) whatever the keys
\* and the constant entries; only under a selector equal to no declared id
\* do the constant entries, and after them the default action, decide.
C14_ActionsOutermost ==
    TableReturned =>
        /\ \A a \in 1..Len(tbl.actions) :
              /\ ElseAt(ret.then_expr, a - 1).sort = "If"
              /\ ElseAt(ret.then_expr, a - 1).cond =
                     z3_Eq(Const("t_action"), IntVal(tbl.actions[a].index))
        /\ \A env \in Envs :
              Sem(ret.then_expr, env).vars.r =
                 IF Selected(env) # {} THEN Action_r(First(Selected(env)))
                 ELSE Sem(ElseAt(ret.then_expr, Len(tbl.actions)), env).vars.r
        /\ \A env \in Envs :
              (Selected(env) = {} /\ Matching(env) # {}) =>
                  Sem(ret.then_expr, env).vars.r = Entry_r(First(Matching(env)))

\* a table with two declared actions and a constant entry that some key
\* values satisfy has returned its formula
C14_Witness ==
    /\ TableReturned
    /\ Len(tbl.actions) = 2 /\ tbl.const_entries # <<>>
    /\ \E env \in Envs : Selected(env) # {} /\ Matching(env) # {}
    /\ Entry_r(1) # Action_r(1)

AllDefault(e) ==
    \A i \in 1..Len(tbl.keys) : tbl.const_entries[e].const_keys[i] = Name("default")

\* the condition eval_table puts on constant entry e
EntryTest(e) == ElseAt(ret.then_expr, Len(tbl.actions) + e - 1).cond

\* C15: under a selector equal to no declared action id, the first declared
\* of the constant entries whose literals the key values satisfy gives the
\* result, a literal "default" being satisfied by every key value; the
\* condition of an entry has one equation for each literal other than
\* "default", and an entry of "default" literals only has the empty
\* conjunction, which every key value satisfies.
C15_EarlierEntryWins ==
    TableReturned =>
        /\ \A env \in Envs :
              (Selected(env) = {} /\ Matching(env) # {}) =>
                  Sem(ret.then_expr, env).vars.r = Entry_r(First(Matching(env)))
        /\ \A e \in 1..Len(tbl.const_entries) :
              /\ Len(EntryTest(e).args) =
                    Cardinality({i \in 1..Len(tbl.keys) :
                        tbl.const_entries[e].const_keys[i] # Name("default")})
              /\ AllDefault(e) => \A env \in Envs : Holds(EntryTest(e), env)
              /\ \A env \in Envs : Holds(EntryTest(e), env) <=> e \in Matching(env)

\* a table with two keys has returned its formula: some key values satisfy
\* both of its constant entries, which give different results; the first
\* entry has a literal and a "default", the second only "default"
C15_Witness ==
    /\ TableReturned
    /\ Len(tbl.keys) = 2 /\ Len(tbl.const_entries) = 2
    /\ \E env \in Envs : Matching(env) = {1, 2} /\ Selected(env) = {}
    /\ \E env \in Envs : Matching(env) = {2}
    /\ Entry_r(1) # Entry_r(2)
    /\ AllDefault(2) /\ ~AllDefault(1)
    /\ \E i \in 1..2 : tbl.const_entries[1].const_keys[i] = Name("default")

(***************************************************************************)
(* The states the action effects of a table are evaluated on.              *)
(***************************************************************************)
ForkStarts ==
    {"P4Table.eval_default", "P4Table.eval_table.const",
     "P4Table.eval_table.action"}

MissStart == "P4Table.eval.default"

\* C16: when P4Table.eval starts the effect of an action (the default
\* inside eval_table, a constant entry, a declared action), the state the
\* effect runs on is a copy made for it, and every name bound when the
\* table was entered has in it the value it had then, whatever the effects
\* evaluated before have written; the default action of the no-match path
\* runs on the state of the table itself, which also has the values it was
\* entered with.
C16_OwnCopy ==
    (at \in ForkStarts \cup {MissStart}) =>
        /\ \A name \in DOMAIN Top.entry :
              Bindings(Store, cur)[name] = Top.entry[name]
        /\ at \in ForkStarts =>
              /\ cur = Len(states) /\ cur # Top.p4_state
              /\ Bindings(Store, Top.p4_state) = Top.entry
        /\ at = MissStart => cur = Top.p4_state

\* the default action of the no-match path starts after the effects of two
\* other actions wrote r, and after them the rest of the program y, each in
\* its own copy
C16_Witness ==
    /\ at = MissStart
    /\ \E s1, s2 \in DOMAIN states :
          /\ s1 # s2 /\ s1 # cur /\ s2 # cur
          /\ Bindings(Store, s1).r # Top.entry.r
          /\ Bindings(Store, s2).r # Top.entry.r
          /\ Bindings(Store, s1).r # Bindings(Store, s2).r
          /\ Bindings(Store, s1).y # Top.entry.y

(***************************************************************************)
(* Calls: copy-in, copy-out and the context buffer.                        *)
(***************************************************************************)
ValueOfName(S, name) == resolve_reference(S, cur, name)

\* the bits of val that the slice [slice_l : slice_r] leaves out
Outside(val, slice_l, slice_r) ==
    {i \in 0..(size(val) - 1) : i < slice_r \/ i > slice_l}

\* what the copy-out of one parameter does to its target
CopiedOut(param) ==
    IF param.arg.node = "P4Slice"
    THEN /\ ValueOfName(Store', param.arg.val.str).sort = "bv"
         /\ size(ValueOfName(Store', param.arg.val.str)) =
                size(ValueOfName(Store, param.arg.val.str))
         /\ Extract(param.arg.slice_l, param.arg.slice_r,
                    ValueOfName(Store', param.arg.val.str)) =
                ValueOfName(Store, param.param_name)
         /\ \A i \in Outside(ValueOfName(Store, param.arg.val.str),
                             param.arg.slice_l, param.arg.slice_r) :
                ValueOfName(Store', param.arg.val.str).bits[i + 1] =
                    ValueOfName(Store, param.arg.val.str).bits[i + 1]
    ELSE ValueOfName(Store', param.arg.str) = ValueOfName(Store, param.param_name)

BodyStarts == at = "P4Action.eval_callable" /\ stack # <<>> /\ Top.frame = "MethodCallStmt"

ContextDone == at = "P4Context" /\ stack # <<>> /\ Top.frame = "MethodCallStmt"

\* the `out` parameters of the call on top whose argument is a slice
OutSlices ==
    {param \in {merge_parameters(
                    Registry[Top.self.method_expr.p4_method],
                    Top.self.method_expr.args)[idx] :
                idx \in 1..Len(merge_parameters(
                    Registry[Top.self.method_expr.p4_method],
                    Top.self.method_expr.args))} :
        param.is_ref = "out" /\ param.arg.node = "P4Slice"}

\* C19: for an `out` argument x[h:l], when the body starts bits h..l of x
\* are the fresh constant of the parameter, and both when the body starts
\* and when the Context of the call has been evaluated, x has the width it
\* had before the call and every bit of x outside h..l is the bit it was
\* before the call.
C19_OutSlice ==
    (BodyStarts \/ ContextDone) =>
        \A param \in OutSlices :
            /\ ValueOfName(Store, param.arg.val.str).sort = "bv"
            /\ size(ValueOfName(Store, param.arg.val.str)) =
                   size(Top.entry[param.arg.val.str])
            /\ \A i \in Outside(Top.entry[param.arg.val.str],
                                param.arg.slice_l, param.arg.slice_r) :
                   ValueOfName(Store, param.arg.val.str).bits[i + 1] =
                       Top.entry[param.arg.val.str].bits[i + 1]
            /\ BodyStarts =>
                   Extract(param.arg.slice_l, param.arg.slice_r,
                           ValueOfName(Store, param.arg.val.str)) =
                       z3_Const(param.param_name,
                           param_sort(Registry[Top.self.method_expr.p4_method],
                                      param.param_name))

\* the body of out_s starts on v[6:3]: bits 6..3 of v are the bits of the
\* constant s, bits 7 and 2..0 are the bits of v
C19_Witness ==
    /\ BodyStarts
    /\ \E param \in OutSlices : param.arg = P4Slice(Name("v"), 6, 3)
    /\ ValueOfName(Store, "v") =
          [sort |-> "bv",
           bits |-> <<BitOf("v", 0), BitOf("v", 1), BitOf("v", 2),
                      BitOf("s", 0), BitOf("s", 1), BitOf("s", 2), BitOf("s", 3),
                      BitOf("v", 7)>>]

\* C18: the buffer of a call holds, for every bound parameter name, the
\* value the name had in the state before the call (nothing for a name that
\* was unbound), and once the Context of the call has been evaluated every
\* `in` parameter name is bound as it was before the call: to the same
\* value, or not at all if it was not bound.
C18_InNameRestored ==
    ContextDone =>
        \A idx \in 1..Len(node.var_buffer) :
            /\ node.var_buffer[idx].arg =
                  (IF node.var_buffer[idx].param_name \in DOMAIN Top.entry
                   THEN Value(Top.entry[node.var_buffer[idx].param_name])
                   ELSE NoneNode)
            /\ node.var_buffer[idx].is_ref = "in" =>
                  IF node.var_buffer[idx].param_name \in DOMAIN Top.entry
                  THEN Bindings(Store, cur)[node.var_buffer[idx].param_name]
                           = Top.entry[node.var_buffer[idx].param_name]
                  ELSE node.var_buffer[idx].param_name
                           \notin DOMAIN Bindings(Store, cur)

(***************************************************************************)
(* merge_parameters (checked under SpecCalls).                             *)
(***************************************************************************)
Merged == call.fn = "merge_parameters" /\ retval # Pending

\* the pairs the result holds for a parameter name
PairsOf(param_name) ==
    {i \in 1..Len(retval.merged_params) :
        retval.merged_params[i].param_name = param_name}

NamedAs(param_name) ==
    {i \in 1..Len(call.kwargs) : call.kwargs[i].arg_name = param_name}

Undeclared ==
    {i \in 1..Len(call.kwargs) :
        \A p \in 1..Len(call.self.params) :
            call.self.params[p].name # call.kwargs[i].arg_name}

\* C20: merge_parameters returns, for every declared parameter, at most one
\* pair: the named argument of that name if there is one (it replaces a
\* positional argument for the same parameter), else the positional
\* argument at the position of the parameter if there is one, else none;
\* every pair carries the declared direction of its parameter, and every
\* pair is for a declared parameter; with a named argument whose name is
\* not a declared parameter, the call raises and returns no pairs.
C20_MergedPairs ==
    Merged =>
        IF Undeclared # {} THEN retval.raised
        ELSE /\ ~retval.raised
             /\ \A i \in 1..Len(retval.merged_params) :
                   \E p \in 1..Len(call.self.params) :
                       call.self.params[p].name =
                           retval.merged_params[i].param_name
             /\ \A p \in 1..Len(call.self.params) :
                   /\ Cardinality(PairsOf(call.self.params[p].name)) =
                         (IF NamedAs(call.self.params[p].name) # {}
                             \/ p <= Len(call.args) THEN 1 ELSE 0)
                   /\ \A i \in PairsOf(call.self.params[p].name) :
                         /\ retval.merged_params[i].is_ref =
                               call.self.params[p].is_ref
                         /\ retval.merged_params[i].arg =
                               (IF NamedAs(call.self.params[p].name) # {}
                                THEN call.kwargs[CHOOSE k \in
                                         NamedAs(call.self.params[p].name) :
                                         TRUE].arg_val
                                ELSE call.args[p])

\* a callable of two parameters was called with one positional and one
\* named argument: both are bound, with the directions in and out
C20_Witness ==
    /\ Merged /\ ~retval.raised
    /\ Len(call.self.params) = 2
    /\ call.args = <<Name("x")>>
    /\ call.kwargs = <<[arg_name |-> "b", arg_val |-> Name("y")]>>
    /\ retval.merged_params =
          <<[param_name |-> "a", is_ref |-> "in", arg |-> Name("x")],
            [param_name |-> "b", is_ref |-> "out", arg |-> Name("y")]>>

(***************************************************************************)
(* Statement sequences (checked under SpecFlow).                           *)
(***************************************************************************)
StoreNext ==
    [states |-> states', structs |-> structs', call_counter |-> call_counter']

\* the node under evaluation assigns the result of a call of a function
\* with a declared return type
CallsFunction ==
    /\ pc = "eval" /\ node.node = "AssignmentStatement"
    /\ node.rval.node = "MethodCallExpr"
    /\ Registry[node.rval.p4_method].callable = "P4Function"
    /\ Registry[node.rval.p4_method].return_type # "None"

\* C21: a call of a function with a declared return type returns the value
\* of its body and leaves nothing behind: the assignment y = f(args) binds
\* y to that value, every other name is bound after it as it was before
\* (a parameter name that was not bound is not bound), and the nodes that
\* were pending are still pending.
C21_FunctionNoMutation ==
    [][(CallsFunction /\ pc' = "step") =>
          /\ Bindings(StoreNext, cur)[node.lval.str] =
                P4Function_eval(call_counter_add(Store, node.rval.p4_method),
                    cur, Registry[node.rval.p4_method], node.rval.args).val
          /\ \A name \in (DOMAIN Bindings(StoreNext, cur)
                             \cup DOMAIN Bindings(Store, cur))
                            \ {node.lval.str} :
                /\ name \in DOMAIN Bindings(Store, cur)
                /\ name \in DOMAIN Bindings(StoreNext, cur)
                /\ Bindings(StoreNext, cur)[name] = Bindings(Store, cur)[name]
          /\ states'[cur].expr_chain = states[cur].expr_chain]_vars

\* both assignments of a program of two calls of the extern p4_method have
\* been evaluated
TwoCalls(p4_method) ==
    /\ pc = "done" /\ Len(run.graph) = 2
    /\ \A i \in 1..2 :
          /\ run.graph[i].node = "AssignmentStatement"
          /\ run.graph[i].rval.node = "MethodCallExpr"
          /\ run.graph[i].rval.p4_method = p4_method

\* the values the arguments of the i-th call resolve to: literals, or names
\* no call writes
ArgValues(i) ==
    [a \in 1..Len(run.graph[i].rval.args) |->
        resolve_expr(Store, cur, run.graph[i].rval.args[a]).val]

\* C22: the value an extern with a declared return type returns is named
\* after the extern and its resolved arguments, and the name is injective
\* in the arguments: two calls get the same name exactly when their
\* resolved argument tuples are the same.
C22_ExternNameInjective ==
    TwoCalls("ext2") =>
        /\ \A i \in 1..2 :
              Bindings(Store, cur)[run.graph[i].lval.str].sort = "instance"
        /\ (Bindings(Store, cur)[run.graph[1].lval.str].name =
                Bindings(Store, cur)[run.graph[2].lval.str].name)
               <=> (ArgValues(1) = ArgValues(2))

\* C23: after a call of an extern the target of an `inout` argument is
\* bound to a fresh value named after the extern, the parameter and the
\* resolved arguments: two calls with different resolved arguments bind
\* differently named values, two calls with the same arguments the same.
\* The first call gives its target a value of its own, so a second call on
\* the same target has another resolved argument than the first.
C23_ExternOutNamed ==
    TwoCalls("ext") =>
        /\ \A i \in 1..2 :
              Bindings(Store, cur)[run.graph[i].rval.args[1].str].sort = "const"
        /\ Bindings(Store, cur)[run.graph[1].rval.args[1].str].name #
               Bindings(Store, cur)[run.graph[2].rval.args[1].str].name

\* the statements of a sequence, those of its blocks in their place
RECURSIVE Flat(_)
Flat(stmts) ==
    IF stmts = <<>> THEN <<>>
    ELSE IF Head(stmts).node = "BlockStatement"
    THEN Flat(Head(stmts).exprs) \o Flat(Tail(stmts))
    ELSE <<Head(stmts)>> \o Flat(Tail(stmts))

\* a sequence of assignments of literals and names
Straight(stmts) ==
    \A i \in 1..Len(stmts) :
        /\ stmts[i].node = "AssignmentStatement"
        /\ stmts[i].rval.node \in {"str", "z3"}

\* the bindings after the assignments have run one after the other
RECURSIVE InOrder(_, _)
InOrder(bound, stmts) ==
    IF stmts = <<>> THEN bound
    ELSE InOrder((Head(stmts).lval.str :>
                     (IF Head(stmts).rval.node = "str"
                      THEN bound[Head(stmts).rval.str]
                      ELSE Head(stmts).rval.val)) @@ bound,
                 Tail(stmts))

InitBindings ==
    Bindings([states |-> <<FreshState(<<>>)>>, structs |-> InitStructs], 1)

\* C24: the evaluation of a block with the statements s1..sn on a state
\* whose expr_chain is R leaves the expr_chain s1..sn followed by R and
\* writes nothing else; step() takes the first pending node; so s1..sn run
\* in their order before R, and R in its order: a program of blocks and
\* assignments returns the bindings the assignments give when they run one
\* after the other as they are written.
C24_BlockInOrder ==
    /\ [][/\ (pc = "eval" /\ node.node = "BlockStatement") =>
                /\ pc' = "step"
                /\ states'[cur].expr_chain =
                      node.exprs \o states[cur].expr_chain
                /\ states'[cur].vars = states[cur].vars
          /\ (pc = "step" /\ states[cur].expr_chain # <<>>) =>
                /\ pc' = "eval"
                /\ node' = Head(states[cur].expr_chain)
                /\ states'[cur].expr_chain = Tail(states[cur].expr_chain)]_vars
    /\ []((pc = "done" /\ Straight(Flat(run.graph))) =>
             ret = [sort |-> "repr",
                    vars |-> InOrder(InitBindings, Flat(run.graph))])

\* the block { x = 1; y = x; } followed by y = x; x = 5; has returned: y is
\* the 1 the block gave x, x is 5
C24_Witness ==
    /\ pc = "done"
    /\ run.graph =
          <<BlockStatement(<<AssignmentStatement("x", Lit(1)),
                             AssignmentStatement("y", Name("x"))>>),
            AssignmentStatement("y", Name("x")),
            AssignmentStatement("x", Lit(5))>>
    /\ ret.vars["y"] = BitVecVal(1, ByteWidth)
    /\ ret.vars["x"] = BitVecVal(5, ByteWidth)

\* the result of running the statements on a state with the bindings of
\* the start of the program
FreshStore(stmts) ==
    [states |-> <<FreshState(stmts)>>, structs |-> InitStructs,
     call_counter |-> call_counter]

Running(stmts) == step(FreshStore(stmts), 1).val

\* the statements of a block, none for no block
ExprsOf(block) == IF block = NoneNode THEN <<>> ELSE block.exprs

\* C25: a program that is a conditional followed by the statements R
\* returns If(cond, F_then, F_else), F_then being the result of the then
\* block followed by R and F_else the result of the else block (nothing
\* without an else block) followed by R, each from the bindings the
\* conditional was reached with.
C25_RestOnEachBranch ==
    (pc = "done" /\ run.graph[1].node = "IfStatement") =>
        ret = z3_If(resolve_expr(FreshStore(<<>>), 1, run.graph[1].cond).val,
                    Running(run.graph[1].then_block.exprs \o Tail(run.graph)),
                    Running(ExprsOf(run.graph[1].else_block) \o Tail(run.graph)))

\* if (c) { x = 1; } followed by y = x has returned: y is 1 under c and
\* the x of the start otherwise
C25_Witness ==
    /\ pc = "done"
    /\ run.graph =
          <<IfStatement(Name("c"),
                        BlockStatement(<<AssignmentStatement("x", Lit(1))>>),
                        NoneNode),
            AssignmentStatement("y", Name("x"))>>
    /\ ret.sort = "If"
    /\ ret.then_expr.vars["y"] = BitVecVal(1, ByteWidth)
    /\ ret.else_expr.vars["y"] = Const("x")

\* the statements of a sequence, those of its blocks and of the bodies of
\* the actions without parameters it calls in their place
RECURSIVE Inlined(_)
Inlined(stmts) ==
    IF stmts = <<>> THEN <<>>
    ELSE IF Head(stmts).node = "BlockStatement"
    THEN Inlined(Head(stmts).exprs) \o Inlined(Tail(stmts))
    ELSE IF Head(stmts).node = "MethodCallStmt"
            /\ Registry[Head(stmts).method_expr.p4_method].callable = "P4Action"
            /\ Registry[Head(stmts).method_expr.p4_method].params = <<>>
    THEN Inlined(Registry[Head(stmts).method_expr.p4_method].block.exprs)
             \o Inlined(Tail(stmts))
    ELSE <<Head(stmts)>> \o Inlined(Tail(stmts))

\* the places of a sequence where the statement leave stands behind
\* nothing but assignments
LeavesAt(stmts, leave) ==
    {i \in 1..Len(stmts) :
        stmts[i] = leave /\ Straight(SubSeq(stmts, 1, i - 1))}

\* the formula of the state at that place
FormulaAt(stmts, leave) ==
    [sort |-> "repr",
     vars |-> InOrder(InitBindings,
                  SubSeq(stmts, 1, (CHOOSE i \in LeavesAt(stmts, leave) : TRUE) - 1))]

\* the statements a branch of the conditional a program starts with runs
\* into: the block of the branch and what follows the conditional
BranchOf(block) == Inlined(ExprsOf(block) \o Tail(run.graph))

\* C26: the evaluation of a P4Exit empties the expr_chain of the state and
\* writes nothing else, and the step() behind it returns the formula of
\* the state as it is then, so that no node that was pending is evaluated
\* on the state: a program (a branch of a conditional) that reaches an
\* exit behind assignments returns the formula of the bindings these
\* assignments give, whatever follows the exit.
C26_ExitReturnsAtOnce ==
    /\ [][/\ (pc = "eval" /\ node.node = "P4Exit") =>
                /\ pc' = "step"
                /\ states'[cur].expr_chain = <<>>
                /\ states'[cur].vars = states[cur].vars
                /\ structs' = structs
          /\ (pc = "step" /\ at = "P4Exit") =>
                /\ pc' = "return"
                /\ ret' = get_z3_repr(Store, cur)
                /\ states' = states /\ structs' = structs]_vars
    /\ [](pc = "done" =>
             /\ LeavesAt(Inlined(run.graph), P4Exit) # {} =>
                   ret = FormulaAt(Inlined(run.graph), P4Exit)
             /\ run.graph[1].node = "IfStatement" =>
                   /\ LeavesAt(BranchOf(run.graph[1].then_block), P4Exit) # {} =>
                         ret.then_expr =
                             FormulaAt(BranchOf(run.graph[1].then_block), P4Exit)
                   /\ LeavesAt(BranchOf(run.graph[1].else_block), P4Exit) # {} =>
                         ret.else_expr =
                             FormulaAt(BranchOf(run.graph[1].else_block), P4Exit))

\* x = 1; exit; y = x; x = 5; has returned: x is 1 and y is the y of the
\* start
C26_Witness ==
    /\ pc = "done"
    /\ run.graph =
          <<AssignmentStatement("x", Lit(1)), P4Exit,
            AssignmentStatement("y", Name("x")),
            AssignmentStatement("x", Lit(5))>>
    /\ ret.vars["x"] = BitVecVal(1, ByteWidth)
    /\ ret.vars["y"] = Const("y")

ReturnsTried == {P4Return(NoneNode), P4Return(Name("x"))}

\* C27: a P4Return without an expression returns the formula of the state,
\* one with an expression the value of the expression; the return writes
\* no binding, and no node that is pending when it runs is evaluated after
\* it: a program that reaches a return behind assignments returns the
\* formula (the value) of the bindings these assignments give and ends with
\* these bindings, whatever follows the return.
C27_ReturnLeaves ==
    pc = "done" =>
        \A leave \in ReturnsTried :
            LeavesAt(Inlined(run.graph), leave) # {} =>
                /\ ret = (IF leave.expr = NoneNode
                          THEN FormulaAt(Inlined(run.graph), leave)
                          ELSE FormulaAt(Inlined(run.graph), leave)
                                   .vars[leave.expr.str])
                /\ Bindings(Store, 1) =
                       FormulaAt(Inlined(run.graph), leave).vars

\* the block of a case is about to be evaluated
CaseStarts == at = "SwitchHit.case" /\ stack # <<>> /\ Top.frame = "SwitchHit"

\* C28: the blocks of a switch are evaluated apart from each other: the
\* block of every case starts from the bindings the state had when the
\* hit expression of the switch was reached, so that no write of the
\* default block or of the block of another case is visible in it.
C28_CasesIsolated ==
    CaseStarts => Bindings(Store, cur) = Top.entry

\* C29: in a program that is a switch followed by the statements R, the
\* block of every case is evaluated on a state on which R is still
\* pending, so that the formula of the case holds the effects of R as the
\* formula of the default block does.
C29_CasesRunRest ==
    CaseStarts => states[cur].expr_chain = Tail(run.graph)

\* a program that stores rval under d by a node of the kind given, writes
\* variables, and reads d into y
Stores(kind) ==
    /\ pc = "done" /\ run.graph[1].node = kind
    /\ run.graph[1].lval = Name("d")
    /\ run.graph[Len(run.graph)] = AssignmentStatement("y", Name("d"))

\* the value of expr in the state the first n statements of the program
\* leave
ValueAfter(n, expr) ==
    resolve_expr(step(FreshStore(SubSeq(run.graph, 1, n)), 1).S, 1, expr).val

\* C30: an assignment stores the value its right side has when the
\* assignment is evaluated, and a later write to a variable the right side
\* reads does not change what is stored; a declaration stores its right
\* side as it is written, and a right side that is an expression node is
\* resolved in the state the declared name is read in.
C30_StoredValue ==
    /\ Stores("AssignmentStatement") =>
          /\ Bindings(Store, 1)["d"] = ValueAfter(0, run.graph[1].rval)
          /\ Bindings(Store, 1)["y"] = ValueAfter(0, run.graph[1].rval)
    /\ Stores("P4Declaration") =>
          /\ states[1].vars["d"] =
                Unresolved(run.graph[1].rval)
          /\ Bindings(Store, 1)["y"] =
                ValueAfter(Len(run.graph) - 1, run.graph[1].rval)

\* d = v[3:0] was declared, v was set to 255 and y = d has read d: y is 15
\* and d is still the slice expression
C30_Witness ==
    /\ Stores("P4Declaration")
    /\ run.graph[1].rval = P4Slice(Name("v"), 3, 0)
    /\ run.graph[2] = AssignmentStatement("v", Lit(255))
    /\ Bindings(Store, 1)["y"] = BitVecVal(15, 4)
    /\ states[1].vars["d"] = P4Slice(Name("v"), 3, 0)


(***************************************************************************)
(* Containers and complex values in resolve_expr.                          *)
(***************************************************************************)
\* what a holder of val sees: the members of an object, else the value
Seen(S, val) ==
    IF val.sort \in {"Struct", "Enum"}
    THEN [sort |-> "members", members |-> S.structs[val.ref]]
    ELSE val

\* the call was given a container of the sort named whose elements all
\* resolve, and has returned
ResolvedAll(sort) ==
    /\ pc = "call" /\ at = "resolved" /\ ret = Pending
    /\ call.expr.node = "z3" /\ call.expr.val.sort = sort
    /\ \A i \in DOMAIN call.expr.val.items :
          resolve_expr(ResolveStore, 1, call.expr.val.items[i]).val # Raise

\* element i of the result is what element i of the argument resolves to
Elementwise(i) ==
    \E r \in {resolve_expr(ResolveStore, 1, call.expr.val.items[i])} :
        Seen(Store, retval.items[i]) = Seen(r.S, r.val)

\* C31: resolve_expr turns a list into a list of the resolved elements in
\* the same order and a mapping into a mapping with the same keys and the
\* resolved values, and raises no error when every element resolves.
C31_ContainersElementwise ==
    /\ ResolvedAll("list") =>
          /\ retval # Raise /\ retval.sort = "list"
          /\ Len(retval.items) = Len(call.expr.val.items)
          /\ \A i \in DOMAIN retval.items : Elementwise(i)
    /\ ResolvedAll("dict") =>
          /\ retval # Raise /\ retval.sort = "dict"
          /\ retval.keys = call.expr.val.keys
          /\ \A i \in DOMAIN retval.items : Elementwise(i)

\* the list half of C31
C31_ListsElementwise ==
    ResolvedAll("list") =>
        /\ retval # Raise /\ retval.sort = "list"
        /\ Len(retval.items) = Len(call.expr.val.items)
        /\ \A i \in DOMAIN retval.items : Elementwise(i)


\* a member was written through the reference resolve_expr returned last
\* for the name of a complex value
Written == pc = "call" /\ at = "written" /\ call.expr \in ComplexNames

\* C32: a complex value resolve_expr returns is independent of the one the
\* state holds: after a member is written through the returned reference,
\* the binding of the state and an earlier result of resolve_expr for the
\* same name still show the members they showed before, for a Struct and
\* for any other complex value.
C32_ResolvedCopyIndependent ==
    Written =>
        /\ Seen(Store, states[1].vars[call.expr.str])
              = Seen(ResolveStore, ResolveVars[call.expr.str])
        /\ ret # Pending =>
              Seen(Store, ret) = Seen(ResolveStore, ResolveVars[call.expr.str])

\* the Struct half of C32
C32_StructCopyIndependent ==
    (Written /\ call.expr = Name("h")) =>
        /\ Seen(Store, states[1].vars["h"]) = Seen(ResolveStore, ResolveVars["h"])
        /\ ret # Pending =>
              Seen(Store, ret) = Seen(ResolveStore, ResolveVars["h"])


(***************************************************************************)
(* Slice assignments to nested slices.                                     *)
(***************************************************************************)
\* the position in the base variable of bit 0 of a target: the low offsets
\* of the slices it is nested in, added up
RECURSIVE LowOf(_)
LowOf(lval) ==
    IF lval.node = "P4Slice" THEN lval.slice_r + LowOf(lval.val) ELSE 0

\* the single slice assignment of the program has been evaluated
SliceAssigned ==
    /\ pc \in {"step", "return", "done"} /\ at # "init"
    /\ run.graph[1].node = "SliceAssignment"

\* C33: a slice assignment of [l:r] to a target nested in slices writes the
\* bits of the base variable from (sum of the low offsets) + r up to
\* (sum of the low offsets) + l, and leaves every other bit of the base
\* variable as it was.
C33_NestedSliceBits ==
    SliceAssigned =>
        LET stmt == run.graph[1]
            low == LowOf(stmt.lval) + stmt.slice_r
            high == LowOf(stmt.lval) + stmt.slice_l
            x == states[1].vars["v"]
        IN  /\ x.sort = "bv" /\ size(x) = SliceWidth
            /\ \A i \in 0..(SliceWidth - 1) :
                  x.bits[i + 1] = IF low <= i /\ i <= high
                                  THEN BitOf("s", i - low)
                                  ELSE BitOf("v", i)

\* v[4:1][3:1][1:0] was assigned: bits 3..2 of v are the bits of s
C33_Witness ==
    /\ pc = "done"
    /\ run.graph[1].lval = P4Slice(P4Slice(Name("v"), 4, 1), 3, 1)
    /\ run.graph[1].slice_l = 1 /\ run.graph[1].slice_r = 0
    /\ ret.vars["v"].bits =
          <<BitOf("v", 0), BitOf("v", 1), BitOf("s", 0), BitOf("s", 1),
            BitOf("v", 4)>>


(***************************************************************************)
(* The node graph during evaluation.                                       *)
(***************************************************************************)
\* C34: evaluation never changes the node graph: no step of an evaluation
\* changes a field of the table (keys, actions, default action, constant
\* entries), the guards stored in the cases of the switch or the nodes of
\* the program; only the call counters of callables change.
C34_GraphReadOnly ==
    [][/\ tbl' = tbl
       /\ case_match' = case_match
       /\ declared' = declared
       /\ run'.graph = run.graph]_vars

\* the parts of C34 that hold: keys, actions, constant entries and the
\* nodes of the program are never written
C34_KeysActionsEntriesReadOnly ==
    [][/\ tbl'.keys = tbl.keys /\ tbl'.actions = tbl.actions
       /\ tbl'.const_entries = tbl.const_entries
       /\ declared' = declared
       /\ run'.graph = run.graph]_vars


(***************************************************************************)
(* Termination.                                                            *)
(***************************************************************************)
\* the node whose eval() is running
Evaluated ==
    IF pc = "eval" THEN node
    ELSE IF stack # <<>> /\ Top.frame = "P4Table" THEN P4TableNode
    ELSE NoneNode

\* the action names a table can call
CalledBy(table) ==
    {table.actions[i].action_name : i \in DOMAIN table.actions}
        \cup {table.const_entries[i].action_name : i \in DOMAIN table.const_entries}
        \cup {"NoAction"}
        \cup (IF table.default_action = NoneNode THEN {}
              ELSE {table.default_action.action_name})

\* q is a node that belongs to n: a statement of the block, the body and
\* the Context of the callable called, the table and the hit of a switch
SubNode(q, n) ==
    CASE n.node = "BlockStatement" -> \E i \in DOMAIN n.exprs : q = n.exprs[i]
      [] n.node = "MethodCallStmt" ->
            \/ q = Registry[n.method_expr.p4_method].block
            \/ q.node = "P4Context"
      [] n.node = "SwitchStatement" ->
            \/ q = P4TableNode
            \/ q = SwitchHit(n.table_str, n.cases, n.default_case)
      [] n.node = "P4Table" ->
            \/ \E a \in CalledBy(tbl) : q = Registry[a].block
            \/ q.node = "P4Context"
      [] OTHER -> FALSE

\* new is old with sub-nodes of the running node in front
Queued(new, old) ==
    /\ Len(new) > Len(old)
    /\ SubSeq(new, Len(new) - Len(old) + 1, Len(new)) = old
    /\ \A i \in 1..(Len(new) - Len(old)) : SubNode(new[i], Evaluated)

\* one step of the evaluation: step() takes the head off the expr_chain,
\* an eval() leaves the expr_chain of a state, empties it or puts
\* sub-nodes of its node in front; a state that is forked has the
\* expr_chain of the state it is copied from, or sub-nodes in front of it
Stepwise ==
    /\ (pc = "step" /\ pc' = "eval") =>
          states'[cur].expr_chain = Tail(states[cur].expr_chain)
    /\ \A s \in DOMAIN states' :
          IF s \in DOMAIN states
          THEN \/ states'[s].expr_chain = states[s].expr_chain
               \/ s = cur /\ pc = "step" /\ pc' = "eval"
               \/ states'[s].expr_chain = <<>>
               \/ Queued(states'[s].expr_chain, states[s].expr_chain)
          ELSE \E o \in DOMAIN states :
                  \/ states'[s].expr_chain = states[o].expr_chain
                  \/ Queued(states'[s].expr_chain, states[o].expr_chain)

Terminated == pc \in {"done", "error"}

Drained == \A s \in DOMAIN states : states[s].expr_chain = <<>>

RECURSIVE HasReturn(_)
\* a return statement is among the nodes, or in the body of a callable
\* that is called
HasReturn(exprs) ==
    \E i \in DOMAIN exprs :
        \/ exprs[i].node = "P4Return"
        \/ exprs[i].node = "BlockStatement" /\ HasReturn(exprs[i].exprs)
        \/ exprs[i].node = "IfStatement"
              /\ \/ HasReturn(<<exprs[i].then_block>>)
                 \/ exprs[i].else_block # NoneNode
                       /\ HasReturn(<<exprs[i].else_block>>)
        \/ exprs[i].node = "MethodCallStmt"
              /\ HasReturn(<<Registry[exprs[i].method_expr.p4_method].block>>)

\* C35 as stated: the evaluation of a node graph terminates with a
\* formula, every step takes a node off the continuation or puts
\* sub-nodes of the node just taken in front, and the continuation of
\* every state, forked or not, is empty in the end.
C35_TerminatesDrained ==
    /\ <>Terminated
    /\ [][Stepwise]_vars
    /\ [](pc = "done" => (ret # Pending /\ Drained))

\* C35 (amended): the evaluation terminates, with a formula or with the
\* error a node raised; every step takes a node off the continuation or
\* puts sub-nodes of the node just taken in front; when it ends with a
\* formula the continuation of every state is empty unless the graph has
\* a return statement, which leaves the nodes behind it where they are.
C35_Terminates ==
    /\ <>Terminated
    /\ [][Stepwise]_vars
    /\ [](pc = "done" => (ret # Pending /\ (~HasReturn(run.graph) => Drained)))

\* a switch on a table, with statements behind it, has been evaluated to
\* its end: the state was forked for the actions and the cases, actions
\* were called, and no state has a node left
C35_Witness ==
    /\ pc = "done" /\ Len(states) > 2 /\ Drained
    /\ run.graph[1].node = "SwitchStatement" /\ Len(run.graph) > 1
    /\ \E p4_method \in DOMAIN call_counter : call_counter[p4_method] > 0

(***************************************************************************)
(* C36: the application of a control.                                      *)
(***************************************************************************)
\* the control applied by the first statement of the program, its
\* argument, and the names of its parameters and locals
Applied == Registry[run.graph[1].method_expr.p4_method]

AppliedArg == run.graph[1].method_expr.args[1]

ControlNames == {Applied.params[i].name : i \in DOMAIN Applied.params}

LocalNames == {"l"}

\* the state of the control and the caller-side state its Context restores:
\* P4Control.eval makes them one after the other
ControlState == Len(states) - 1

CallerState == Len(states)

\* the value of the parameter in the state of the control is the value of
\* the caller-side target (of its sliced bits, for a slice)
ControlCopiedOut ==
    LET val == states[ControlState].vars[Applied.params[1].name]
    IN  IF AppliedArg.node = "P4Slice"
        THEN LET target == resolve_reference(Store, CallerState, AppliedArg.val.str)
             IN  /\ target.sort = "bv" /\ size(target) = ByteWidth
                 /\ \A i \in 1..ByteWidth :
                       target.bits[i] =
                           IF i - 1 \in AppliedArg.slice_r..AppliedArg.slice_l
                           THEN val.bits[i - AppliedArg.slice_r]
                           ELSE InitVars.v.bits[i]
        ELSE resolve_reference(Store, CallerState, AppliedArg.str) = val

\* the body runs on a state of the parameters and locals, in front of the
\* caller's continuation; the Context goes back to the caller-side state
\* with that continuation, the targets written and the names of the control
\* not resolvable
ContextRestoresCaller ==
    /\ at = "P4Control.eval" =>
          /\ cur = ControlState
          /\ DOMAIN states[cur].vars = ControlNames
          /\ Len(states[cur].expr_chain) = Len(run.graph) + 1
          /\ states[cur].expr_chain[1] = Applied.block
          /\ states[cur].expr_chain[2].node = "P4Context"
          /\ SubSeq(states[cur].expr_chain, 3, Len(run.graph) + 1)
                = Tail(run.graph)
    /\ (Len(states) > 1 /\ cur = ControlState) =>
          DOMAIN states[cur].vars \subseteq ControlNames \cup LocalNames
    /\ at = "P4Context.saved" =>
          /\ cur = CallerState
          /\ states[cur].expr_chain = Tail(run.graph)
          /\ Applied.params[1].is_ref \in {"out", "inout"} => ControlCopiedOut
          /\ \A n \in ControlNames \cup LocalNames :
                resolve_reference(Store, cur, n) = None

\* C36: applying a control runs its body on a child state of the parameters
\* and locals with the caller's continuation behind the body and the
\* Context; the Context switches back to the caller's state with that
\* continuation and the out/inout values copied to the targets, and it is on
\* that state, without the names of the control, that the statements behind
\* the application run and give the formula of the evaluation
C36_ControlRestoresCaller ==
    /\ ContextRestoresCaller
    /\ pc = "done" => ret = get_z3_repr(Store, CallerState)

\* the application is the last statement: the formula is the one of the
\* restored caller-side state
C36_LastStatement ==
    /\ ContextRestoresCaller
    /\ (pc = "done" /\ Len(run.graph) = 1) =>
          ret = get_z3_repr(Store, CallerState)

(***************************************************************************)
(* C37: an exit in the body of an action.                                  *)
(***************************************************************************)
\* the program starts with the call of an action that exits
ExitCalled ==
    /\ run.graph[1].node = "MethodCallStmt"
    /\ run.graph[1].method_expr.p4_method \in ExitActions

ExitTarget == run.graph[1].method_expr.args[1].str

\* the value of a name in a formula
InFormula(repr, name) ==
    IF name \in DOMAIN repr.vars THEN repr.vars[name]
    ELSE repr.vars[BaseOf(Store, 1, name)].members[MemberOf(Store, 1, name)]

\* the value of the target when the body of the action starts: its value
\* before the call, or the constant an `out` parameter binds it to
TargetAtEntry ==
    IF Registry[run.graph[1].method_expr.p4_method].params[1].is_ref = "out"
    THEN z3_Const("p", DeclareSort)
    ELSE Const(ExitTarget)

\* C37: an exit in the body of an action empties the continuation, the
\* Context of every enclosing call and the caller's statements with it: the
\* formula of the evaluation has the parameter names bound to their values
\* at the exit, the targets as they were when the body started and nothing
\* written by a statement behind the exit or behind the call
C37_ExitSkipsCopyOut ==
    /\ (at = "P4Exit" /\ pc = "step") => states[cur].expr_chain = <<>>
    /\ (pc = "done" /\ ExitCalled) =>
          /\ "p" \in DOMAIN ret.vars
          /\ ret.vars["p"] = BitVecVal(1, ByteWidth)
          /\ run.graph[1].method_expr.p4_method = "call_exit" =>
                ("q" \in DOMAIN ret.vars /\ ret.vars["q"] = Const(ExitTarget))
          /\ InFormula(ret, ExitTarget) = TargetAtEntry
          /\ ret.vars["y"] = Const("y")

C37_Witness ==
    /\ pc = "done" /\ ExitCalled
    /\ run.graph[1].method_expr.p4_method = "call_exit"
    /\ ExitTarget = "x"
    /\ Len(run.graph) > 1
    /\ ret.vars["p"] = BitVecVal(1, ByteWidth)
    /\ ret.vars["q"] = Const("x")
    /\ ret.vars["x"] = Const("x")

(***************************************************************************)
(* C38: dissect_conds.                                                     *)
(***************************************************************************)
\* the condition the loop of dissect_conds is at
Dissected == call.conditions[call.index]

\* the step puts the condition in one class
MadeControllable ==
    /\ call'.controllable_conds = Append(call.controllable_conds, Dissected)
    /\ call'.fixed_conds = call.fixed_conds

MadeFixed ==
    /\ call'.fixed_conds = Append(call.fixed_conds, Dissected)
    /\ call'.controllable_conds = call.controllable_conds

Dropped ==
    /\ call'.fixed_conds = call.fixed_conds
    /\ call'.controllable_conds = call.controllable_conds

\* the names the engine gives to the match constants and to the action
\* selector of a table
KeyNames ==
    {name \o "_key_" \o ToString(index) :
        name \in TableNames, index \in 0..(MaxKeys - 1)}

ActionNames == {name \o "_action" : name \in TableNames}

DissectStep == call.fn = "dissect_conds" /\ call'.index = call.index + 1

\* every condition goes to one class, a condition with an action selector
\* is fixed, a controllable condition has no variable but ingress_0
DissectedOnce ==
    DissectStep =>
        /\ (MadeControllable /\ ~MadeFixed /\ ~Dropped)
              \/ (MadeFixed /\ ~MadeControllable /\ ~Dropped)
              \/ (Dropped /\ ~MadeControllable /\ ~MadeFixed)
        /\ get_vars(Dissected) \cap ActionNames # {} => MadeFixed
        /\ MadeControllable => get_vars(Dissected) = {"ingress_0"}

\* C38: dissect_conds puts every condition in exactly one class; a
\* condition with a match constant {table}_key_{index} or an action selector
\* {table}_action of the engine is fixed; a controllable condition has no
\* variable but the input header ingress_0
C38_EngineNamesFixed ==
    [][DissectedOnce
          /\ ((DissectStep
                  /\ get_vars(Dissected) \cap (KeyNames \cup ActionNames) # {})
                 => MadeFixed)]_vars

\* the part of C38 without the match constants
C38_OneClass == [][DissectedOnce]_vars

(***************************************************************************)
(* C39: validate_choice.                                                   *)
(***************************************************************************)
\* the architecture is in the support matrix, validation and blackbox
\* testing are not both requested, every requested mode is supported
ChoiceSupported(args) ==
    /\ args.arch \in DOMAIN SUPPORT_MATRIX
    /\ ~(args.do_validate /\ args.use_blackbox)
    /\ args.do_validate => SUPPORT_MATRIX[args.arch].validation
    /\ args.use_blackbox => SUPPORT_MATRIX[args.arch].blackbox

\* C39: validate_choice returns success and a config of arch, do_validate,
\* use_blackbox, randomize_input and compiler_bin exactly when the
\* architecture is in the support matrix, validation and blackbox testing
\* are not both requested and every requested mode is supported; otherwise
\* it returns failure and an empty config, and main launches no iteration
C39_ValidateChoice ==
    /\ retval # Pending =>
          IF ChoiceSupported(call.args)
          THEN /\ retval.result = EXIT_SUCCESS
               /\ DOMAIN retval.config =
                     {"arch", "do_validate", "use_blackbox", "randomize_input",
                      "compiler_bin"}
               /\ retval.config.arch = call.args.arch
               /\ retval.config.do_validate = call.args.do_validate
               /\ retval.config.use_blackbox = call.args.use_blackbox
               /\ retval.config.randomize_input = call.args.randomize_input
               /\ retval.config.compiler_bin
                     = SUPPORT_MATRIX[call.args.arch].compiler
          ELSE /\ retval.result = EXIT_FAILURE
               /\ DOMAIN retval.config = {}
               /\ pc = "done" /\ call.returned = EXIT_FAILURE
    /\ ~ChoiceSupported(call.args) => call.launched = <<>>

\* a supported choice whose iterations were launched, after a pool took
\* them out of order
C39_Witness ==
    /\ pc = "done" /\ call.returned = None
    /\ call.args.arch = "v1model" /\ call.args.use_blackbox
    /\ retval.result = EXIT_SUCCESS
    /\ retval.config.compiler_bin = "SS_BIN"
    /\ Len(call.launched) = call.args.iterations
    /\ Len(call.launched) > 1 /\ call.launched[1] > call.launched[2]

====
